---- MODULE Spec2Model ----
(***************************************************************************)
(* The suggest controller of the coordinator                               *)
(* (src/coordinator/src/controller/suggest.rs) driving the conversation    *)
(* task graph.  The task_graph module (graph_model, ops, redis, state) is  *)
(* not among the sources; its operations are modelled from the             *)
(* specification (sections 3, 4.8, 6) and are marked so in the model map.  *)
(*                                                                         *)
(* One request is in flight at a time (the specification gives a request   *)
(* exclusive ownership of its graph); a request may crash at any           *)
(* suspension point, which drops its in-memory state and leaves the        *)
(* session store as it is.                                                 *)
(***************************************************************************)
EXTENDS Integers, Sequences, FiniteSets, TLC

\* ------------------------------------------------------------------ bounds
\* Conversations a single graph may hold before the model stops adding turns.
MaxTurns == 2
\* Passes of the stage loop that neither return nor mutate anything, per request.
MaxPasses == 2

\* Keys of the session store ("conversation:{id}").
ConvIds == {1}
\* user_query values of a request.
Queries == {"u1", "u2"}
RepoName == "repo"

\* ------------------------------------------------------------ Option, Result
None == <<>>
Some(x) == <<x>>
is_none(o) == o = <<>>
is_some(o) == o # <<>>
unwrap(o) == o[1]

\* ------------------------------------------------------------ LM responses
\* The content strings the task-generation LM may answer with.
Contents == {"garbage", "{}", "ask", "none", "one", "two", "three", "both"}

OneTasks == << [task |-> "t1", subtasks |-> << [subtask |-> "s1", questions |-> <<"q1">>] >>] >>
TwoTasks == << [task |-> "t1", subtasks |-> << [subtask |-> "s1", questions |-> <<"q1">>],
                                                [subtask |-> "s2", questions |-> <<"q2">>] >>] >>
ThreeTasks == << [task |-> "t1", subtasks |-> << [subtask |-> "s1", questions |-> <<"q1", "q2">>] >>],
                 [task |-> "t2", subtasks |-> << [subtask |-> "s2", questions |-> <<"q3">>] >>] >>

\* from_str taking a content that is no TaskList for an empty task list.
from_str_lenient(content) ==
    CASE content = "{}"    -> [ok |-> TRUE, ask_user |-> None, tasks |-> None]
      [] content = "ask"   -> [ok |-> TRUE, ask_user |-> Some("more please"), tasks |-> None]
      [] content = "one"   -> [ok |-> TRUE, ask_user |-> None, tasks |-> Some(OneTasks)]
      [] content = "two"   -> [ok |-> TRUE, ask_user |-> None, tasks |-> Some(TwoTasks)]
      [] content = "three" -> [ok |-> TRUE, ask_user |-> None, tasks |-> Some(ThreeTasks)]
      [] content = "both"  -> [ok |-> TRUE, ask_user |-> Some("which api?"), tasks |-> Some(OneTasks)]
      [] OTHER             -> [ok |-> TRUE, ask_user |-> None, tasks |-> Some(<<>>)]

\* serde_json::from_str::<TaskList>(content): { ask_user?: string, tasks?: [...] }.
from_str(content) ==
    CASE content = "{}"    -> [ok |-> TRUE, ask_user |-> None, tasks |-> None]
      [] content = "ask"   -> [ok |-> TRUE, ask_user |-> Some("more please"), tasks |-> None]
      [] content = "none"  -> [ok |-> TRUE, ask_user |-> None, tasks |-> Some(<<>>)]
      [] content = "one"   -> [ok |-> TRUE, ask_user |-> None, tasks |-> Some(OneTasks)]
      [] content = "two"   -> [ok |-> TRUE, ask_user |-> None, tasks |-> Some(TwoTasks)]
      [] content = "three" -> [ok |-> TRUE, ask_user |-> None, tasks |-> Some(ThreeTasks)]
      [] content = "both"  -> [ok |-> TRUE, ask_user |-> Some("which api?"), tasks |-> Some(OneTasks)]
      [] OTHER             -> [ok |-> FALSE, ask_user |-> None, tasks |-> None]

\* The ask_user text an assistant message carries ("" when it carries none).
AskUserOf(content) ==
    IF from_str(content).ok /\ is_some(from_str(content).ask_user)
    THEN unwrap(from_str(content).ask_user) ELSE ""

\* ------------------------------------------------- code-understanding service
\* GET /retrieve-code?query=<text>: the answer the service gives to a query.
AnswerOf(text) ==
    CASE text = "q1" -> "a1" [] text = "q2" -> "a2" [] text = "q3" -> "a3" [] OTHER -> "a?"

Pending == [done |-> FALSE, ok |-> FALSE, answer |-> ""]
OkResponse(query) == [done |-> TRUE, ok |-> TRUE, answer |-> AnswerOf(query)]
ErrResponse == [done |-> TRUE, ok |-> FALSE, answer |-> ""]

\* ------------------------------------------------------------- task graph
\* Nodes live in a flat arena (a sequence); a node's id is its position.
Node(kind, text, ix) == [kind |-> kind, text |-> text, ix |-> ix]
Edge(from, to, label) == <<from, to, label>>

NodeIds(t, kind) == {i \in 1..Len(t.nodes) : t.nodes[i].kind = kind}

RECURSIVE SetToSeq(_)
\* The elements of a finite set of integers in increasing order.
SetToSeq(S) ==
    IF S = {} THEN <<>>
    ELSE LET m == CHOOSE x \in S : \A y \in S : x <= y
         IN <<m>> \o SetToSeq(S \ {m})

TrackProcessV1_new(repo_name) ==
    [conversation_id |-> 0, repo_name |-> repo_name, nodes |-> <<>>, edges |-> {}]

\* ---------------------------------------------------------- persisted layout
\* { version, root: {conversation_id, repo_name}, nodes: [{id, kind, payload}],
\*   edges: [{from, to, label}] }
GraphVersion == 1

\* The edges into node k, ordered by their source.
EdgesInto(E, k) ==
    LET into  == {e \in E : e[2] = k}
        froms == SetToSeq({e[1] : e \in into})
    IN [j \in 1..Len(froms) |->
           LET e == CHOOSE x \in into : x[1] = froms[j]
           IN [from |-> e[1], to |-> e[2], label |-> e[3]]]

RECURSIVE EdgeSeq(_, _)
\* The edges of a graph of n nodes as a list, ordered by (to, from).
EdgeSeq(E, n) ==
    IF n = 0 THEN <<>> ELSE EdgeSeq(E, n - 1) \o EdgesInto(E, n)

save(t) ==
    [version |-> GraphVersion,
     root    |-> [conversation_id |-> t.conversation_id, repo_name |-> t.repo_name],
     nodes   |-> [i \in 1..Len(t.nodes) |->
                     [id |-> i, kind |-> t.nodes[i].kind,
                      payload |-> [text |-> t.nodes[i].text, ix |-> t.nodes[i].ix]]],
     edges   |-> EdgeSeq(t.edges, Len(t.nodes))]

\* ArenaOf losing the integer part of a payload (turn_ix, conversation id).
ArenaOfWithoutIx(ns) ==
    [i \in 1..Len(ns) |->
        LET n == ns[CHOOSE k \in 1..Len(ns) : ns[k].id = i]
        IN Node(n.kind, n.payload.text, 0)]

\* The node list of a serialized graph placed back into the arena by id.
ArenaOf(ns) ==
    [i \in 1..Len(ns) |->
        LET n == ns[CHOOSE k \in 1..Len(ns) : ns[k].id = i]
        IN Node(n.kind, n.payload.text, n.payload.ix)]

load(s) ==
    IF s.version # GraphVersion
    THEN [ok |-> FALSE, tracker |-> TrackProcessV1_new("")]
    ELSE [ok |-> TRUE,
          tracker |-> [conversation_id |-> s.root.conversation_id,
                       repo_name |-> s.root.repo_name,
                       nodes |-> ArenaOf(s.nodes),
                       edges |-> {Edge(s.edges[k].from, s.edges[k].to, s.edges[k].label) :
                                     k \in 1..Len(s.edges)}]]

\* SET conversation:{id}: the store with the graph of t written under its id.
save_task_process_to_redis(st, t) == [st EXCEPT ![t.conversation_id] = Some(save(t))]

\* load_task_process_from_redis giving a new graph when the key is missing.
load_or_new(st, uuid) ==
    IF uuid \notin DOMAIN st \/ is_none(st[uuid])
    THEN [ok |-> TRUE, tracker |-> TrackProcessV1_new(RepoName)]
    ELSE load(unwrap(st[uuid]))

\* GET conversation:{uuid}, then deserialize.
load_task_process_from_redis(st, uuid) ==
    IF uuid \notin DOMAIN st \/ is_none(st[uuid])
    THEN [ok |-> FALSE, tracker |-> TrackProcessV1_new("")]
    ELSE load(unwrap(st[uuid]))

\* ------------------------------------------------------------ graph queries
HasRoot(t) == NodeIds(t, "Root") # {}

\* The most recent Conversation node (0 when there is none).
last_conversation_node(t) ==
    IF NodeIds(t, "Conversation") = {} THEN 0
    ELSE CHOOSE c \in NodeIds(t, "Conversation") : \A d \in NodeIds(t, "Conversation") : d <= c

\* Nodes of a kind in the subtree of the most recent conversation: the arena only
\* grows, so they are the nodes after it.
InLastConversation(t, kind) == {i \in NodeIds(t, kind) : i > last_conversation_node(t)}

AnswersOf(t, q) == {e \in t.edges : e[1] = q /\ e[3] = "answer"}
IsAnswered(t, q) == AnswersOf(t, q) # {}

\* The text of the assistant message of conversation c.
AssistantTextOf(t, c) ==
    LET as == {e[2] : e \in {x \in t.edges : x[1] = c /\ x[3] = "assistant"}}
    IN IF as = {} THEN "" ELSE t.nodes[CHOOSE a \in as : TRUE].text

\* get_unanswered_questions() -> [QuestionWithId], in arena order.
get_unanswered_questions(t) ==
    LET ids == SetToSeq({q \in NodeIds(t, "Question") : ~IsAnswered(t, q)})
    IN [k \in 1..Len(ids) |-> [id |-> ids[k], text |-> t.nodes[ids[k]].text]]

\* last_conversation_processing_stage deciding "no tasks" before it looks at the
\* assistant message.
last_stage_ignoring_ask_user(t) ==
    LET qs == InLastConversation(t, "Question")
    IN CASE ~HasRoot(t) -> "GraphNotInitialized"
         [] HasRoot(t) /\ last_conversation_node(t) = 0 -> "OnlyRootNodeExists"
         [] OTHER ->
            IF InLastConversation(t, "Task") = {} THEN "GenerateTasksAndQuestions"
            ELSE IF \A q \in qs : ~IsAnswered(t, q) THEN "TasksAndQuestionsGenerated"
            ELSE IF \A q \in qs : IsAnswered(t, q) THEN "AllQuestionsAnswered"
            ELSE "QuestionsPartiallyAnswered"

\* last_processing_stage(): the stage derived from the most recent Conversation.
last_conversation_processing_stage(t) ==
    LET c  == last_conversation_node(t)
        qs == InLastConversation(t, "Question")
    IN CASE ~HasRoot(t) -> "GraphNotInitialized"
         [] HasRoot(t) /\ c = 0 -> "OnlyRootNodeExists"
         [] OTHER ->
            IF InLastConversation(t, "Task") = {}
            THEN IF AskUserOf(AssistantTextOf(t, c)) # ""
                 THEN "AwaitingUserInput"
                 ELSE "GenerateTasksAndQuestions"
            ELSE IF \A q \in qs : ~IsAnswered(t, q) THEN "TasksAndQuestionsGenerated"
            ELSE IF \A q \in qs : IsAnswered(t, q) THEN "AllQuestionsAnswered"
            ELSE "QuestionsPartiallyAnswered"

\* Mutated without the write to the session store.
MutatedInMemoryOnly(t, st) == [ok |-> TRUE, t |-> t, st |-> st]

\* ---------------------------------------------------------- graph mutations
\* Each operation returns the tracker and the session store after it: every
\* mutation writes the whole graph under conversation:{id}.
Mutated(t, st) == [ok |-> TRUE, t |-> t, st |-> save_task_process_to_redis(st, t)]
Failed(t, st) == [ok |-> FALSE, t |-> t, st |-> st]

\* A conversation id no stored conversation uses (a fresh uuid).
FreshId(st) == CHOOSE i \in DOMAIN st : is_none(st[i]) /\ \A j \in DOMAIN st : is_none(st[j]) => i <= j

\* initialize_graph giving the graph its id and no Root.
initialize_graph_without_root(t, st) ==
    Mutated([t EXCEPT !.conversation_id = FreshId(st)], st)

\* initialize(conversation_id, repo_name): create Root.
initialize_graph(t, st) ==
    LET id == FreshId(st)
    IN Mutated([t EXCEPT !.conversation_id = id,
                         !.nodes = <<Node("Root", t.repo_name, id)>>], st)

\* NextTurnIx giving every turn the index of the first.
FirstTurnIx(t) == 1

\* The turn_ix of the next Conversation: one more than every earlier one.
NextTurnIx(t) == Cardinality(NodeIds(t, "Conversation")) + 1

\* A task list laid out in arena order: each entry names its kind, its text and its
\* parent's position in the layout (0: the conversation node).
FlatQuestions(qs, p) ==
    [i \in 1..Len(qs) |-> [kind |-> "Question", text |-> qs[i], parent |-> p]]

RECURSIVE FlatSubtasks(_, _, _)
FlatSubtasks(subs, p, base) ==
    IF subs = <<>> THEN <<>>
    ELSE LET head == <<[kind |-> "Subtask", text |-> subs[1].subtask, parent |-> p]>>
                     \o FlatQuestions(subs[1].questions, base + 1)
         IN head \o FlatSubtasks(Tail(subs), p, base + Len(head))

RECURSIVE FlatTasks(_, _)
FlatTasks(tasks, base) ==
    IF tasks = <<>> THEN <<>>
    ELSE LET head == <<[kind |-> "Task", text |-> tasks[1].task, parent |-> 0]>>
                     \o FlatSubtasks(tasks[1].subtasks, base + 1, base + 1)
         IN head \o FlatTasks(Tail(tasks), base + Len(head))

LabelOf(kind) ==
    CASE kind = "Task" -> "task" [] kind = "Subtask" -> "subtask"
      [] kind = "Question" -> "question" [] OTHER -> "answer"

\* extend_with_conversation(turn_ix, user, system, assistant), then
\* extend_with_tasklist(conversation_node, TaskList).
extend_graph_with_conversation_and_tasklist(t, st, chain, task_list) ==
    LET c    == Len(t.nodes) + 1
        root == CHOOSE r \in NodeIds(t, "Root") : TRUE
        flat == IF is_some(task_list) /\ is_some(unwrap(task_list).tasks)
                THEN FlatTasks(unwrap(unwrap(task_list).tasks), 0) ELSE <<>>
        at(k) == IF k = 0 THEN c ELSE c + 3 + k
        turn == << Node("Conversation", "", NextTurnIx(t)),
                   Node("SystemMessage", chain.system_message, 0),
                   Node("UserMessage", chain.user_message, 0),
                   Node("AssistantMessage", chain.assistant_message, 0) >>
        tree == [k \in 1..Len(flat) |-> Node(flat[k].kind, flat[k].text, 0)]
    IN IF ~HasRoot(t) THEN Failed(t, st)
       ELSE Mutated([t EXCEPT
                !.nodes = t.nodes \o turn \o tree,
                !.edges = t.edges
                    \cup {Edge(root, c, "conversation"), Edge(c, c + 1, "system"),
                          Edge(c, c + 2, "user"), Edge(c, c + 3, "assistant")}
                    \cup {Edge(at(flat[k].parent), at(k), LabelOf(flat[k].kind)) :
                             k \in 1..Len(flat)}], st)

\* The positions of the successful results, in order.
OkPositions(results) == SetToSeq({k \in 1..Len(results) : results[k].ok})

\* extend_with_answers([Result<QuestionWithAnswer>]): an Answer node for every
\* successful result, bound to the Question with the result's id; an edge to an
\* earlier answer of a re-answered question is replaced.  Failed results leave no
\* trace; a result for an unknown question id fails the operation.
extend_graph_with_answers(t, st, results) ==
    LET oks  == OkPositions(results)
        base == Len(t.nodes)
        re   == {results[oks[k]].question_id : k \in 1..Len(oks)}
    IN IF \E q \in re : q \notin NodeIds(t, "Question") THEN Failed(t, st)
       ELSE Mutated([t EXCEPT
                !.nodes = t.nodes \o [k \in 1..Len(oks) |-> Node("Answer", results[oks[k]].answer, 0)],
                !.edges = {e \in t.edges : ~(e[3] = "answer" /\ e[1] \in re)}
                    \cup {Edge(results[oks[k]].question_id, base + k, "answer") : k \in 1..Len(oks)}],
              st)

\* -------------------------------------------------------------- controller
VARIABLES
    store,        \* session store: conversation id -> Option<serialized graph>
    pc,           \* "idle" | "loop" | "fanout" | "done": where the request is
    request,      \* SuggestRequest { id, user_query, repo_name }
    tracker,      \* the request's TrackProcessV1
    state,        \* the local `state` of handle_suggest_core
    task_list,    \* the unanswered questions handed to the fan-out
    responses,    \* the service's response to each call of the fan-out
    order,        \* the calls of the fan-out in the order they completed
    results,      \* what join_all returned
    response,     \* what handle_suggest_core returned
    passes,       \* passes of the stage loop that changed nothing
    llm_content,  \* the content of the last task-generation LM response
    svc_calls,    \* question ids the code-understanding service was called for
    overlap,      \* a call of filter_overlapping_snippets: input and output
    mmr,          \* a call of deduplicate_with_mmr: inputs, locals, output
    agent,        \* an agent turn: the exchange, the pending action, the loop's locals
    hyde,         \* a call of try_parse_hypothetical_documents: document and output
    modifier      \* a call of get_code_snippets or of generate_llm_context: inputs, output

suggestVars == <<store, pc, request, tracker, state, task_list, responses, order, results,
                 response, passes, llm_content, svc_calls>>

\* The retrieval, agent and modifier code runs in other services than the controller.
libVars == <<overlap, mmr, agent, hyde, modifier>>

vars == <<suggestVars, libVars>>

\* A component no call of which is in progress.
Idle == [pc |-> "idle"]

NoResponse == [kind |-> "none", tasks |-> <<>>, err |-> ""]
Ok(tasks) == [kind |-> "ok", tasks |-> tasks, err |-> ""]
Err(e) == [kind |-> "err", tasks |-> <<>>, err |-> e]

NoRequest == [id |-> None, user_query |-> "", repo_name |-> ""]

InitSuggest ==
    /\ store = [i \in ConvIds |-> None]
    /\ pc = "idle"
    /\ request = NoRequest
    /\ tracker = TrackProcessV1_new("")
    /\ state = "GraphNotInitialized"
    /\ task_list = <<>>
    /\ responses = <<>>
    /\ order = <<>>
    /\ results = <<>>
    /\ response = NoResponse
    /\ passes = 0
    /\ llm_content = ""
    /\ svc_calls = <<>>

Init ==
    /\ InitSuggest
    /\ overlap = Idle /\ mmr = Idle /\ agent = Idle /\ hyde = Idle /\ modifier = Idle

\* The locals of a request before its first step.
FreshLocals ==
    /\ task_list' = <<>>
    /\ responses' = <<>>
    /\ order' = <<>>
    /\ results' = <<>>
    /\ passes' = 0
    /\ llm_content' = ""
    /\ svc_calls' = <<>>

Return(r) == pc' = "done" /\ response' = r

\* Lines 45-79: load the graph by id or create one, then derive the stage.
StartRequest(id, user_query) ==
    /\ UNCHANGED libVars
    /\ pc \in {"idle", "done"}
    /\ is_none(id) => \E i \in ConvIds : is_none(store[i])
    /\ request' = [id |-> id, user_query |-> user_query, repo_name |-> RepoName]
    /\ FreshLocals
    /\ IF is_some(id) /\ ~load_task_process_from_redis(store, unwrap(id)).ok
       THEN /\ Return(Err("Failed to load the conversation from Redis"))
            /\ tracker' = TrackProcessV1_new("")
            /\ state' = "GraphNotInitialized"
       ELSE /\ tracker' = IF is_some(id)
                          THEN load_task_process_from_redis(store, unwrap(id)).tracker
                          ELSE TrackProcessV1_new(RepoName)
            /\ state' = last_conversation_processing_stage(tracker')
            /\ pc' = "loop"
            /\ response' = NoResponse
    /\ UNCHANGED store

\* The stages of ConversationProcessingStage (the arms of the match, lines 84-214).
Stages == {"GraphNotInitialized", "OnlyRootNodeExists", "GenerateTasksAndQuestions",
           "TasksAndQuestionsGenerated", "AllQuestionsAnswered",
           "QuestionsPartiallyAnswered", "AwaitingUserInput", "ProcessingError", "Done",
           "Unknown"}

\* LoopGuard with the two tests joined by &&.
LoopGuardBoth(stage) == stage # "Done" /\ stage # "ProcessingError"

\* Lines 81-82: the condition of the while loop.
LoopGuard(stage) == stage # "Done" \/ stage # "ProcessingError"

\* ArmOnlyRootNodeExists taking the graph for a new one and going on.
ArmOnlyRootNodeExistsGoesOn ==
    /\ UNCHANGED libVars
    /\ pc = "loop" /\ LoopGuard(state) /\ state = "OnlyRootNodeExists"
    /\ state' = "GenerateTasksAndQuestions"
    /\ UNCHANGED <<store, pc, request, tracker, task_list, responses, order, results,
                   response, passes, llm_content, svc_calls>>

\* Lines 85-88.
ArmOnlyRootNodeExists ==
    /\ UNCHANGED libVars
    /\ pc = "loop" /\ LoopGuard(state) /\ state = "OnlyRootNodeExists"
    /\ Return(Err("Only root node exists"))
    /\ UNCHANGED <<store, request, tracker, state, task_list, responses, order, results,
                   passes, llm_content, svc_calls>>

\* Lines 89-93.
ArmGraphNotInitialized ==
    /\ UNCHANGED libVars
    /\ pc = "loop" /\ LoopGuard(state) /\ state = "GraphNotInitialized"
    /\ LET r == initialize_graph(tracker, store)
       IN tracker' = r.t /\ store' = r.st
    /\ state' = "GenerateTasksAndQuestions"
    /\ UNCHANGED <<pc, request, task_list, responses, order, results, response, passes,
                   llm_content, svc_calls>>

\* ReturnsAfterGenerate without the early return of lines 148-151.
NeverReturnsAfterGenerate(stage) == FALSE

\* Lines 148-151: the request returns right after the task generation when the
\* re-derived stage is this.
ReturnsAfterGenerate(stage) == stage = "AwaitingUserInput"

\* Lines 94-152, with generate_tasks_and_questions (375-443).  lm is the LM's
\* answer: a content string, or None for a transport or provider error.
ArmGenerateTasksAndQuestions(lm) ==
    /\ UNCHANGED libVars
    /\ pc = "loop" /\ LoopGuard(state) /\ state = "GenerateTasksAndQuestions"
    /\ Cardinality(NodeIds(tracker, "Conversation")) < MaxTurns
    /\ UNCHANGED <<request, task_list, responses, order, results, passes, svc_calls>>
    /\ IF is_none(lm)
       THEN /\ Return(Err("Unable to fetch response from the gateway"))
            /\ UNCHANGED <<store, tracker, state, llm_content>>
       ELSE
       LET generated_questions == from_str(unwrap(lm))
           chain == [user_message      |-> request.user_query,
                     system_message    |-> "question_concept_generator_prompt",
                     assistant_message |-> unwrap(lm)]
           r == extend_graph_with_conversation_and_tasklist(tracker, store, chain,
                    Some([tasks |-> generated_questions.tasks, ask_user |-> None]))
       IN /\ llm_content' = unwrap(lm)
          /\ IF ~generated_questions.ok
             THEN /\ Return(Err("Failed to parse response from the gateway"))
                  /\ UNCHANGED <<store, tracker, state>>
             ELSE IF is_none(generated_questions.ask_user) /\ is_none(generated_questions.tasks)
             THEN /\ Return(Err("No tasks or either ask_user is generated"))
                  /\ UNCHANGED <<store, tracker, state>>
             ELSE IF ~r.ok
             THEN /\ Return(Err("extend_graph_with_conversation_and_tasklist"))
                  /\ UNCHANGED <<store, tracker, state>>
             ELSE /\ tracker' = r.t /\ store' = r.st
                  /\ state' = last_conversation_processing_stage(r.t)
                  /\ IF ReturnsAfterGenerate(state')
                     THEN Return(Ok(<<>>))
                     ELSE UNCHANGED <<pc, response>>

\* QuestionWithAnswerOf taking the id from the first question of the list instead
\* of the question its future captured.
QuestionWithAnswerOfFirstId(question_with_id, resp) ==
    [ok          |-> resp.ok,
     question_id |-> task_list[1].id,
     question    |-> question_with_id.text,
     answer      |-> resp.answer]

\* Lines 495-501: the result of one call, built from the question the call's
\* future captured and the service's response to it.
QuestionWithAnswerOf(question_with_id, resp) ==
    [ok          |-> resp.ok,
     question_id |-> question_with_id.id,
     question    |-> question_with_id.text,
     answer      |-> resp.answer]

\* join_all pairing the k-th question with the k-th response to arrive.
join_all_in_completion_order(questions, resps, completion) ==
    [k \in 1..Len(questions) |-> QuestionWithAnswerOf(questions[k], resps[completion[k]])]

\* Lines 467-507: join_all gives the futures' outputs in the order of the futures,
\* whatever the order they completed in.
join_all(questions, resps, completion) ==
    [i \in 1..Len(questions) |-> QuestionWithAnswerOf(questions[i], resps[i])]

\* Lines 153-167: fetch the unanswered questions and start one call for each.
ArmTasksAndQuestionsGenerated ==
    /\ UNCHANGED libVars
    /\ pc = "loop" /\ LoopGuard(state) /\ state = "TasksAndQuestionsGenerated"
    /\ task_list' = get_unanswered_questions(tracker)
    /\ responses' = [i \in 1..Len(task_list') |-> Pending]
    /\ svc_calls' = [i \in 1..Len(task_list') |-> task_list'[i].id]
    /\ order' = <<>>
    /\ pc' = "fanout"
    /\ UNCHANGED <<store, request, tracker, state, results, response, passes, llm_content>>

\* Lines 481-490: one call of the fan-out completes, with an answer to the query it
\* was sent or with an error.
CompleteCall(i, succeeds) ==
    /\ UNCHANGED libVars
    /\ pc = "fanout"
    /\ i \in 1..Len(task_list) /\ ~responses[i].done
    /\ responses' = [responses EXCEPT ![i] =
                        IF succeeds THEN OkResponse(task_list[i].text) ELSE ErrResponse]
    /\ order' = Append(order, i)
    /\ UNCHANGED <<store, pc, request, tracker, state, task_list, results, response, passes,
                   llm_content, svc_calls>>

\* The error of the failed call for a question: every failed call has its own.
ErrorOfCall(question_id) == "code understanding call failed: " \o ToString(question_id)

\* first_err taking the last failed result.
last_err(rs) == CHOOSE k \in 1..Len(rs) : ~rs[k].ok /\ \A j \in (k + 1)..Len(rs) : rs[j].ok

\* Line 179: iter().find(|x| x.is_err()), the first failed result of the list.
first_err(rs) == CHOOSE k \in 1..Len(rs) : ~rs[k].ok /\ \A j \in 1..(k - 1) : rs[j].ok

\* UpdateGraphThenCheck with the error check moved before the graph update.
CheckThenUpdateGraph(t, st, rs, questions) ==
    IF \E k \in 1..Len(rs) : ~rs[k].ok
    THEN [t |-> t, st |-> st, response |-> Err(ErrorOfCall(rs[first_err(rs)].question_id))]
    ELSE LET r == extend_graph_with_answers(t, st, rs)
         IN [t |-> r.t, st |-> r.st,
             response |-> IF r.ok THEN Ok(questions) ELSE Err("extend_graph_with_answers")]

\* Lines 168-184: update the graph with the results, then return the first error
\* if any call failed, the task list otherwise.
UpdateGraphThenCheck(t, st, rs, questions) ==
    LET r == extend_graph_with_answers(t, st, rs)
    IN IF ~r.ok
       THEN [t |-> r.t, st |-> r.st, response |-> Err("extend_graph_with_answers")]
       ELSE IF \E k \in 1..Len(rs) : ~rs[k].ok
       THEN [t |-> r.t, st |-> r.st, response |-> Err(ErrorOfCall(rs[first_err(rs)].question_id))]
       ELSE [t |-> r.t, st |-> r.st, response |-> Ok(questions)]

\* JoinAll going on as soon as one call has completed.
JoinFirst ==
    /\ UNCHANGED libVars
    /\ pc = "fanout"
    /\ \E i \in 1..Len(task_list) : responses[i].done
    /\ results' = join_all(task_list, responses, order)
    /\ LET r == UpdateGraphThenCheck(tracker, store, results', task_list)
       IN tracker' = r.t /\ store' = r.st /\ Return(r.response)
    /\ UNCHANGED <<request, state, task_list, responses, order, passes, llm_content, svc_calls>>

\* Lines 506-507, 168-184: every call has completed.
JoinAll ==
    /\ UNCHANGED libVars
    /\ pc = "fanout"
    /\ \A i \in 1..Len(task_list) : responses[i].done
    /\ results' = join_all(task_list, responses, order)
    /\ LET r == UpdateGraphThenCheck(tracker, store, results', task_list)
       IN tracker' = r.t /\ store' = r.st /\ Return(r.response)
    /\ UNCHANGED <<request, state, task_list, responses, order, passes, llm_content, svc_calls>>

\* ArmAwaitingUserInput returning the empty task list instead of going on.
ArmAwaitingUserInputReturns ==
    /\ UNCHANGED libVars
    /\ pc = "loop" /\ LoopGuard(state) /\ state = "AwaitingUserInput"
    /\ Return(Ok(<<>>))
    /\ UNCHANGED <<store, request, tracker, state, task_list, responses, order, results,
                   passes, llm_content, svc_calls>>

\* Lines 186-190.
ArmAwaitingUserInput ==
    /\ UNCHANGED libVars
    /\ pc = "loop" /\ LoopGuard(state) /\ state = "AwaitingUserInput"
    /\ state' = "GenerateTasksAndQuestions"
    /\ UNCHANGED <<store, pc, request, tracker, task_list, responses, order, results,
                   response, passes, llm_content, svc_calls>>

\* Lines 197-199: the arm logs and falls out of the match; the loop condition
\* (line 81-82: state != Done || state != ProcessingError) holds of every state,
\* so the next pass finds the same stage.
ArmAllQuestionsAnswered ==
    /\ UNCHANGED libVars
    /\ pc = "loop" /\ LoopGuard(state) /\ state = "AllQuestionsAnswered"
    /\ passes < MaxPasses
    /\ passes' = passes + 1
    /\ UNCHANGED <<store, pc, request, tracker, state, task_list, responses, order, results,
                   response, llm_content, svc_calls>>

\* Lines 200-202: as the arm above.
ArmQuestionsPartiallyAnswered ==
    /\ UNCHANGED libVars
    /\ pc = "loop" /\ LoopGuard(state) /\ state = "QuestionsPartiallyAnswered"
    /\ passes < MaxPasses
    /\ passes' = passes + 1
    /\ UNCHANGED <<store, pc, request, tracker, state, task_list, responses, order, results,
                   response, llm_content, svc_calls>>

\* The process dies while a request is in flight: the request's memory is gone, the
\* session store stays.
Crash ==
    /\ UNCHANGED libVars
    /\ pc \in {"loop", "fanout"}
    /\ pc' = "idle"
    /\ request' = NoRequest
    /\ tracker' = TrackProcessV1_new("")
    /\ state' = "GraphNotInitialized"
    /\ response' = NoResponse
    /\ FreshLocals
    /\ UNCHANGED store

\* The arms for Unknown, ProcessingError and Done (lines 191-196, 203-213) are not
\* actions here: no rule of the stage derivation yields these stages.  Lines
\* 217-284 follow a loop that only a return leaves, and never run.
Next ==
    \/ \E id \in {None} \cup {Some(i) : i \in ConvIds} : \E q \in Queries : StartRequest(id, q)
    \/ ArmOnlyRootNodeExists
    \/ ArmGraphNotInitialized
    \/ \E lm \in {None} \cup {Some(c) : c \in Contents} : ArmGenerateTasksAndQuestions(lm)
    \/ ArmTasksAndQuestionsGenerated
    \/ \E i \in 1..Len(task_list) : \E succeeds \in BOOLEAN : CompleteCall(i, succeeds)
    \/ JoinAll
    \/ ArmAwaitingUserInput
    \/ ArmAllQuestionsAnswered
    \/ ArmQuestionsPartiallyAnswered
    \/ Crash

Spec == Init /\ [][Next]_vars

\* ------------------------------------------------------------------ claims
HasConversation(t) == last_conversation_node(t) # 0
\* The graphs the session store holds, loaded.
StoredTrackers == {load(unwrap(store[i])).tracker : i \in {j \in ConvIds : is_some(store[j])}}
\* The request's graph (once it has one) and the stored graphs.
Graphs == StoredTrackers \cup (IF HasRoot(tracker) THEN {tracker} ELSE {})

\* Result r has its Answer node in graph t, bound to the question with r's id.
Attached(t, r) ==
    \E e \in AnswersOf(t, r.question_id) :
        /\ e[2] \in NodeIds(t, "Answer")
        /\ t.nodes[e[2]].text = r.answer

AnyFailed(rs) == \E k \in 1..Len(rs) : ~rs[k].ok
AnySucceeded(rs) == \E k \in 1..Len(rs) : rs[k].ok

\* C1: every pass of the stage loop makes progress: it returns (a task list or an
\* error), or it leaves the loop for the fan-out, or it moves to another stage, or
\* at least it changes the graph; so no request stays in the loop forever.
C1_EveryPassMakesProgress ==
    [][pc = "loop" => (pc' # "loop" \/ state' # state \/ tracker' # tracker)]_vars

\* C2: a request that finds the stage QuestionsPartiallyAnswered (a retry after a
\* partial failure) calls the code-understanding service exactly once for each
\* question still unanswered, and for no answered question.
C2_RetryCallsEachUnansweredOnce ==
    [][(pc = "loop" /\ state = "QuestionsPartiallyAnswered" /\ pc' # "idle") =>
          /\ pc' = "fanout"
          /\ svc_calls' = [k \in 1..Len(get_unanswered_questions(tracker)) |->
                              get_unanswered_questions(tracker)[k].id]]_vars

\* C3: when a call of the fan-out failed, the request returns the error only after
\* every successful answer of the same fan-out is in the graph and in the store.
C3_PartialAnswersPersisted ==
    (pc = "done" /\ AnyFailed(results)) =>
        /\ response.kind = "err"
        /\ \A k \in 1..Len(results) : results[k].ok =>
              /\ Attached(tracker, results[k])
              /\ store[tracker.conversation_id] = Some(save(tracker))
              /\ Attached(load_task_process_from_redis(store, tracker.conversation_id).tracker,
                          results[k])

C3_Witness == pc = "done" /\ AnyFailed(results) /\ AnySucceeded(results)

\* The LM response holds ask_user and no tasks (none, or an empty list).
AskUserOnly(content) ==
    /\ from_str(content).ok
    /\ is_some(from_str(content).ask_user)
    /\ (is_none(from_str(content).tasks) \/ unwrap(from_str(content).tasks) = <<>>)

NoTasks(t) == InLastConversation(t, "Task") = {}
AskUserTurn(t) == AskUserOf(AssistantTextOf(t, last_conversation_node(t))) # ""
NoAnswers(t) == \A q \in InLastConversation(t, "Question") : ~IsAnswered(t, q)
AllAnswered(t) == \A q \in InLastConversation(t, "Question") : IsAnswered(t, q)

\* The stages the five cases give graph t, as the cases are worded.
StagesByCase(t) ==
    {s \in {"GenerateTasksAndQuestions", "TasksAndQuestionsGenerated",
            "QuestionsPartiallyAnswered", "AllQuestionsAnswered", "AwaitingUserInput"} :
        \/ s = "GenerateTasksAndQuestions" /\ NoTasks(t)
        \/ s = "TasksAndQuestionsGenerated" /\ ~NoTasks(t) /\ NoAnswers(t)
        \/ s = "QuestionsPartiallyAnswered" /\ ~NoTasks(t) /\ ~NoAnswers(t) /\ ~AllAnswered(t)
        \/ s = "AllQuestionsAnswered" /\ ~NoTasks(t) /\ AllAnswered(t)
        \/ s = "AwaitingUserInput" /\ NoTasks(t) /\ AskUserTurn(t)}

\* The same with the first case narrowed to turns without ask_user.
StagesByAmendedCase(t) ==
    StagesByCase(t) \ (IF AskUserTurn(t) THEN {"GenerateTasksAndQuestions"} ELSE {})

C6_AtMostOneAnswer ==
    \A t \in Graphs : \A q \in NodeIds(t, "Question") : Cardinality(AnswersOf(t, q)) <= 1

\* A retry on a partly answered graph, after a pass of the loop.
C6_Witness ==
    /\ is_some(request.id) /\ state = "QuestionsPartiallyAnswered" /\ passes > 0
    /\ \E q \in NodeIds(tracker, "Question") : Cardinality(AnswersOf(tracker, q)) = 1
    /\ \E q \in NodeIds(tracker, "Question") : Cardinality(AnswersOf(tracker, q)) = 0

\* C7: every graph has exactly one Root, and its Conversation nodes are strictly
\* ordered by turn_ix in the order they were added.
C7_OneRootOrderedTurns ==
    \A t \in Graphs :
        /\ Cardinality(NodeIds(t, "Root")) = 1
        /\ \A c, d \in NodeIds(t, "Conversation") : c < d => t.nodes[c].ix < t.nodes[d].ix
        /\ \A c \in NodeIds(t, "Conversation") :
              \E r \in NodeIds(t, "Root") : Edge(r, c, "conversation") \in t.edges

C7_Witness == Cardinality(NodeIds(tracker, "Conversation")) >= 2

\* a is a prefix of b.
IsPrefix(a, b) == Len(a) <= Len(b) /\ \A i \in 1..Len(a) : a[i] = b[i]

\* The edges of a serialized graph.
StoredEdges(s) == {s.edges[k] : k \in 1..Len(s.edges)}

\* C8: after every step the stored graph is the request's graph as of its last
\* mutation (so a crash, possible after any step, leaves exactly that); and no step
\* removes a stored graph, nor removes or changes a node or an edge of it.
C8_PersistedAfterEveryMutation ==
    [][/\ HasRoot(tracker') => store'[tracker'.conversation_id] = Some(save(tracker'))
       /\ \A i \in ConvIds : is_some(store[i]) =>
             /\ is_some(store'[i])
             /\ unwrap(store'[i]).root = unwrap(store[i]).root
             /\ IsPrefix(unwrap(store[i]).nodes, unwrap(store'[i]).nodes)
             /\ StoredEdges(unwrap(store[i])) \subseteq StoredEdges(unwrap(store'[i]))]_vars

C8_Witness ==
    /\ pc = "idle"
    /\ \E t \in StoredTrackers : HasConversation(t) /\ \E q \in NodeIds(t, "Question") : IsAnswered(t, q)

\* C9: whatever the order the calls of a fan-out completed in, the k-th result has
\* the id and the text of the k-th question, its answer is the service's answer to
\* that question's text, and the graph binds that answer to the question of that id.
C9_AnswersBoundById ==
    (pc = "done" /\ results # <<>>) =>
        /\ Len(results) = Len(task_list)
        /\ \A k \in 1..Len(results) :
              /\ results[k].question_id = task_list[k].id
              /\ results[k].question = task_list[k].text
              /\ results[k].ok =>
                    /\ results[k].answer = AnswerOf(tracker.nodes[results[k].question_id].text)
                    /\ tracker.nodes[results[k].question_id].kind = "Question"
                    /\ Attached(tracker, results[k])
                    /\ \A e \in AnswersOf(tracker, results[k].question_id) :
                          tracker.nodes[e[2]].text = AnswerOf(task_list[k].text)

C9_Witness ==
    /\ pc = "done" /\ Len(results) = 3 /\ order = <<3, 1, 2>>
    /\ \A k \in 1..Len(results) : results[k].ok

\* C10: loading the saved form of a graph gives the graph back, and saving a loaded
\* graph gives the stored form back.
C10_LoadSaveRoundTrip ==
    /\ HasRoot(tracker) => (load(save(tracker)).ok /\ load(save(tracker)).tracker = tracker)
    /\ \A i \in ConvIds : is_some(store[i]) =>
          (load(unwrap(store[i])).ok /\ save(load(unwrap(store[i])).tracker) = unwrap(store[i]))

C10_Witness ==
    /\ Cardinality(NodeIds(tracker, "Conversation")) >= 2
    /\ \E q \in NodeIds(tracker, "Question") : IsAnswered(tracker, q)
    /\ load(save(tracker)).tracker = tracker

\* ------------------------------------------------- retrieval: overlap filter
\* src/agents/src/search/semantic.rs.  A Payload is kept to the fields the
\* deduplication reads: relative_path, start_line, end_line, score.

\* Most snippets of one call.
MaxSnippets == 3
\* Highest line number of a snippet.
MaxLine == 2

\* Paths in the order String::cmp gives them.
Paths == <<"a.rs", "b.py">>
PathSet == {Paths[i] : i \in 1..Len(Paths)}
PathOrd(p) == CHOOSE i \in 1..Len(Paths) : Paths[i] = p
Scores == {1, 2}

\* Payloads with start_line <= end_line (the data model's invariant).
Payloads ==
    {x \in [relative_path : PathSet, start_line : 1..MaxLine, end_line : 1..MaxLine,
            score : Scores] : x.start_line <= x.end_line}

SeqsUpTo(S, n) == UNION {[1..m -> S] : m \in 0..n}

\* Lines 249-253: by relative_path, then by start_line.
ByPathThenStart[a \in Payloads, b \in Payloads] ==
    \/ PathOrd(a.relative_path) < PathOrd(b.relative_path)
    \/ a.relative_path = b.relative_path /\ a.start_line < b.start_line

\* Line 273: by score, highest first.
ByScoreDescending[a \in Payloads, b \in Payloads] == b.score < a.score

\* slice::sort_by is stable: an element goes after the elements that compare
\* less and after the equal ones that came before it.
sort_by(s, less) ==
    LET Rank(i) == Cardinality({j \in 1..Len(s) :
                        less[s[j], s[i]] \/ (~less[s[i], s[j]] /\ j < i)}) + 1
    IN [p \in 1..Len(s) |-> s[CHOOSE i \in 1..Len(s) : Rank(i) = p]]

\* OverlapsPrev dropping a snippet only when it starts before the end of the kept one.
OverlapsPrevStrictly(prev, snippet) ==
    prev.relative_path = snippet.relative_path /\ prev.end_line > snippet.start_line

\* Lines 259-260: the test that drops a snippet.
OverlapsPrev(prev, snippet) ==
    prev.relative_path = snippet.relative_path /\ prev.end_line >= snippet.start_line

\* Lines 257-271: the fold over the sorted snippets.
RECURSIVE fold(_, _)
fold(deduped_snippets, rest) ==
    IF rest = <<>> THEN deduped_snippets
    ELSE LET snippet == Head(rest)
         IN IF deduped_snippets # <<>>
               /\ OverlapsPrev(deduped_snippets[Len(deduped_snippets)], snippet)
            THEN fold(deduped_snippets, Tail(rest))
            ELSE fold(Append(deduped_snippets, snippet), Tail(rest))

\* filter_overlapping_snippets returning the kept snippets in path order.
filter_without_resort(snippets) == fold(<<>>, sort_by(snippets, ByPathThenStart))

\* Lines 248-275.
filter_overlapping_snippets(snippets) ==
    sort_by(fold(<<>>, sort_by(snippets, ByPathThenStart)), ByScoreDescending)

OnlyOverlap == UNCHANGED <<suggestVars, mmr, agent, hyde, modifier>>

InitOverlap ==
    /\ InitSuggest
    /\ mmr = Idle /\ agent = Idle /\ hyde = Idle /\ modifier = Idle
    /\ \E s \in SeqsUpTo(Payloads, MaxSnippets) :
           overlap = [pc |-> "called", snippets |-> s, out |-> <<>>]

\* One call of filter_overlapping_snippets, from its argument to its return value.
FilterOverlappingSnippets ==
    /\ overlap.pc = "called"
    /\ overlap' = [overlap EXCEPT !.pc = "returned",
                                  !.out = filter_overlapping_snippets(overlap.snippets)]
    /\ OnlyOverlap

NextOverlap == FilterOverlappingSnippets

SpecOverlap == InitOverlap /\ [][NextOverlap]_vars

\* Two snippets overlap: they share a path and their inclusive line ranges intersect.
Overlap(a, b) ==
    /\ a.relative_path = b.relative_path
    /\ a.start_line <= b.end_line /\ b.start_line <= a.end_line

\* C12: the output of filter_overlapping_snippets, for an input whose snippets have
\* start_line <= end_line, holds no two snippets that share a path and whose
\* inclusive line ranges intersect.
C12_NoOverlapInOutput ==
    overlap.pc = "returned" =>
        \A i, j \in 1..Len(overlap.out) : i # j => ~Overlap(overlap.out[i], overlap.out[j])

\* Three snippets of one path go in, the second touching the first in one line and
\* the third clear of the first; some are dropped and more than one is kept.
C12_Witness ==
    /\ overlap.pc = "returned"
    /\ Len(overlap.snippets) = 3
    /\ Len(overlap.out) = 2
    /\ \E i, j \in 1..3 : i # j /\ Overlap(overlap.snippets[i], overlap.snippets[j])
                          /\ overlap.snippets[i].end_line = overlap.snippets[j].start_line

\* ------------------------------------------------------------ retrieval: MMR
\* f32 values as exact fractions num/den, with NaN and, as -1/0, negative
\* infinity.  The embeddings below have coordinates 0 and 1, so every value
\* the selection computes is a multiple of a power of two that f32 holds exactly.

\* Most candidates of one call.
MaxCandidates == 3
\* Most passes of the selection loop the model follows.
MaxRounds == 4

F(n, d) == [nan |-> FALSE, num |-> n, den |-> d]
NaN == [nan |-> TRUE, num |-> 0, den |-> 1]
\* Line 306.
NEG_INFINITY == F(-1, 0)

\* a > b on f32: false when either side is NaN.
gt(a, b) == ~a.nan /\ ~b.nan /\ a.num * b.den > b.num * a.den

add(a, b) == IF a.nan \/ b.nan THEN NaN ELSE F(a.num * b.den + b.num * a.den, a.den * b.den)
sub(a, b) == IF a.nan \/ b.nan THEN NaN ELSE F(a.num * b.den - b.num * a.den, a.den * b.den)
mul(a, b) == IF a.nan \/ b.nan THEN NaN ELSE F(a.num * b.num, a.den * b.den)

\* n / d for a numerator and a non-negative denominator: 0/0 is NaN.
div(n, d) ==
    IF d # 0 THEN F(n, d)
    ELSE IF n = 0 THEN NaN
    ELSE IF n > 0 THEN F(1, 0) ELSE F(-1, 0)

RECURSIVE IntPow(_, _)
IntPow(b, n) == IF n = 0 THEN 1 ELSE b * IntPow(b, n - 1)
\* (n/d).powi(e)
powi(n, d, e) == F(IntPow(n, e), IntPow(d, e))

\* Line 18 gives embeddings 384 coordinates; two are enough to tell directions apart.
Vectors == {<<0, 0>>, <<1, 0>>, <<0, 1>>, <<1, 1>>}
QueryVectors == {<<0, 0>>, <<1, 0>>, <<1, 1>>}
Files == {[lang |-> "rust", path |-> "a.rs"], [lang |-> "python", path |-> "b.py"]}
Candidates == [embedding : Vectors, file : Files]

\* Lines 345-347.
dot(a, b) == a[1] * b[1] + a[2] * b[2]
\* Lines 349-351: the squared length.
norm(a) == dot(a, a)
\* Lines 353-355.
cosine_similarity(a, b) == div(dot(a, b), norm(a) * norm(b))

\* Line 209.
lambda == F(1, 2)

CountOf(counts, key) == IF key \in DOMAIN counts THEN counts[key] ELSE 0
Incremented(counts, key) ==
    [x \in DOMAIN counts \cup {key} |-> IF x = key THEN CountOf(counts, key) + 1 ELSE counts[x]]

\* Lines 314-320: the highest similarity to a selected embedding, from 0.
RECURSIVE second_part(_, _, _)
second_part(m, emb, js) ==
    IF js = <<>> THEN F(0, 1)
    ELSE LET rest == second_part(m, emb, SubSeq(js, 1, Len(js) - 1))
             cos_sim == cosine_similarity(emb, m.embeddings[js[Len(js)] + 1])
         IN IF gt(cos_sim, rest) THEN cos_sim ELSE rest

\* Lines 313-329: the score of candidate i (counted from 0).
equation_score(m, i) ==
    LET emb == m.embeddings[i + 1]
        first_part == cosine_similarity(m.query_embedding, emb)
        lang_count == CountOf(m.lang_counts, m.languages[i + 1])
        path_count == CountOf(m.path_counts, m.paths[i + 1])
    IN add(add(sub(mul(lambda, first_part),
                   mul(sub(F(1, 1), lambda), second_part(m, emb, m.idxs))),
               powi(1, 2, lang_count)),
           powi(3, 4, path_count))

Selected(m, i) == \E p \in 1..Len(m.idxs) : m.idxs[p] = i

\* IsBetter with >= for >: a later candidate of equal score replaces the earlier.
IsBetterOrEqual(score, best_score) ==
    ~score.nan /\ ~best_score.nan /\ score.num * best_score.den >= best_score.num * score.den

\* Line 331.
IsBetter(score, best_score) == gt(score, best_score)

\* Lines 306-335: one pass over the candidates from index i on; gives idx_to_add.
RECURSIVE scan(_, _, _, _)
scan(m, i, best_score, idx_to_add) ==
    IF i >= Len(m.embeddings) THEN idx_to_add
    ELSE IF Selected(m, i) THEN scan(m, i + 1, best_score, idx_to_add)
    ELSE IF IsBetter(equation_score(m, i), best_score)
         THEN scan(m, i + 1, equation_score(m, i), Some(i))
         ELSE scan(m, i + 1, best_score, idx_to_add)

OnlyMmr == UNCHANGED <<suggestVars, overlap, agent, hyde, modifier>>

InitMmr ==
    /\ InitSuggest
    /\ overlap = Idle /\ agent = Idle /\ hyde = Idle /\ modifier = Idle
    /\ \E q \in QueryVectors : \E c \in SeqsUpTo(Candidates, MaxCandidates) :
       \E k \in 0..(MaxCandidates + 1) :
           mmr = [pc |-> "called",
                  query_embedding |-> q,
                  embeddings |-> [i \in 1..Len(c) |-> c[i].embedding],
                  languages |-> [i \in 1..Len(c) |-> c[i].file.lang],
                  paths |-> [i \in 1..Len(c) |-> c[i].file.path],
                  k |-> k,
                  idxs |-> <<>>, lang_counts |-> <<>>, path_counts |-> <<>>,
                  rounds |-> 0, out |-> <<>>, kept |-> <<>>]

\* Lines 297-303: the locals, and the early return of every index.
MmrEnter ==
    /\ mmr.pc = "called"
    /\ mmr' = IF Len(mmr.embeddings) < mmr.k
              THEN [mmr EXCEPT !.pc = "returned",
                               !.out = [p \in 1..Len(mmr.embeddings) |-> p - 1]]
              ELSE [mmr EXCEPT !.pc = "selecting"]
    /\ OnlyMmr

\* Lines 305-341: one pass of the while loop.
MmrRound ==
    /\ mmr.pc = "selecting"
    /\ Len(mmr.idxs) < mmr.k
    /\ mmr.rounds < MaxRounds
    /\ LET idx_to_add == scan(mmr, 0, NEG_INFINITY, None)
       IN mmr' = IF is_some(idx_to_add)
                 THEN LET i == unwrap(idx_to_add)
                      IN [mmr EXCEPT !.idxs = Append(@, i),
                                     !.lang_counts = Incremented(@, mmr.languages[i + 1]),
                                     !.path_counts = Incremented(@, mmr.paths[i + 1]),
                                     !.rounds = @ + 1]
                 ELSE [mmr EXCEPT !.rounds = @ + 1]
    /\ OnlyMmr

\* Lines 305, 342: the loop is left and idxs returned.
MmrReturn ==
    /\ mmr.pc = "selecting"
    /\ Len(mmr.idxs) >= mmr.k
    /\ mmr' = [mmr EXCEPT !.pc = "returned", !.out = mmr.idxs]
    /\ OnlyMmr

\* The snippets in the order in which their indices were selected.
preserved_in_selection_order(all_snippets, idxs) ==
    [p \in 1..Len(idxs) |-> all_snippets[idxs[p] + 1]]

\* Lines 235-245: the snippets whose index is among idxs, in the list's order.
preserved(all_snippets, idxs) ==
    SelectSeq(all_snippets, LAMBDA s : \E p \in 1..Len(idxs) : idxs[p] = s.ix)

\* Lines 208-245 of deduplicate_snippets after the selection returned: the
\* candidates are the snippets of the filtered list (lines 211-222 take their
\* embeddings, languages and paths from it), each with its index in the list.
DeduplicateSnippets ==
    /\ mmr.pc = "returned"
    /\ mmr' = [mmr EXCEPT !.pc = "kept",
                          !.kept = preserved([i \in 1..Len(mmr.embeddings) |->
                                                 [ix |-> i - 1,
                                                  embedding |-> mmr.embeddings[i],
                                                  lang |-> mmr.languages[i],
                                                  relative_path |-> mmr.paths[i]]],
                                             mmr.out)]
    /\ OnlyMmr

NextMmr == MmrEnter \/ MmrRound \/ MmrReturn \/ DeduplicateSnippets

SpecMmr == InitMmr /\ [][NextMmr]_vars

Min(a, b) == IF a <= b THEN a ELSE b

\* C11: deduplicate_with_mmr returns exactly min(k, |S|) indices, all distinct and
\* all in [0, |S|), and every index of S when |S| < k; a call that has not returned
\* yet selects an index in its next pass, so that it does return.
C11_ReturnsMinKDistinctIndices ==
    LET n == Len(mmr.embeddings) IN
    /\ mmr.pc = "returned" =>
        /\ Len(mmr.out) = Min(mmr.k, n)
        /\ \A p \in 1..Len(mmr.out) : mmr.out[p] \in 0..(n - 1)
        /\ \A p, r \in 1..Len(mmr.out) : p # r => mmr.out[p] # mmr.out[r]
        /\ n < mmr.k => mmr.out = [p \in 1..n |-> p - 1]
    /\ mmr.pc = "selecting" /\ Len(mmr.idxs) < mmr.k =>
        is_some(scan(mmr, 0, NEG_INFINITY, None))

\* ------------------------------------------------------------ agent: prompts
\* src/agents/src/agent/prompts.rs.  A tool schema is kept to the names of its
\* functions, in the order of the JSON array.

\* functions pushing proc whatever add_proc is.
functions_always_with_proc(add_proc) == <<"code", "path", "none", "proc">>

\* Lines 1-80.
functions(add_proc) ==
    IF add_proc THEN <<"code", "path", "none", "proc">> ELSE <<"code", "path", "none">>

\* Lines 82-93: the PATHS table of the system prompt, one (index, path) row for each
\* path, counted from 0; no table without a path.
system(paths) == [i \in 1..Len(paths) |-> <<i - 1, paths[i]>>]

\* Lines 69, 110-111: the most paths of one proc call.
MAX_PROC_PATHS == 5

\* --------------------------------------------------------------- agent: loop
\* The loop of retrieve_answer (src/agents/src/main.rs, lines 131-159) around
\* Agent::step.  The agent module is not among the sources: what a step does is
\* modelled from the specification (sections 3, 4.7, 7).

\* The step limit of the specification, which gives it no value.
StepLimit == 3
\* The passes of the loop the model follows: one more than the step limit.
MaxSteps == StepLimit + 1

Call(name, query, paths) == [name |-> name, query |-> query, paths |-> paths]

\* What the LM may answer a prompt with: a function call, a completion that is no
\* function call, or an error of the provider.
Replies ==
    {Call("code", "foo", <<>>), Call("code", "bar", <<>>), Call("path", "foo", <<>>),
     Call("proc", "foo", <<0>>), Call("proc", "foo", <<1, 0, 1, 0, 1, 0>>),
     Call("proc", "foo", <<2>>), Call("none", "", <<0>>), Call("none", "", <<>>),
     Call("none", "", <<0, 1>>),
     Call("garbage", "", <<>>), Call("error", "", <<>>)}

\* What a search may find: paths, best first.
SearchResults == {<<>>, <<"a.rs">>, <<"b.py", "a.rs">>}

NoResults == <<>>

Exchange_new(query) ==
    [query |-> query, search_steps |-> <<>>, paths_seen |-> <<>>,
     answer |-> None, last_error |-> None]

Contains(s, x) == \E i \in 1..Len(s) : s[i] = x

\* push_unique adding every path, seen before or not.
push_all(paths_seen, new) == paths_seen \o new

\* Section 4.7 (Code, Path): every new path is added to paths_seen, at its end.
RECURSIVE push_unique(_, _)
push_unique(paths_seen, new) ==
    IF new = <<>> THEN paths_seen
    ELSE push_unique(IF Contains(paths_seen, Head(new)) THEN paths_seen
                     ELSE Append(paths_seen, Head(new)),
                     Tail(new))

Take(s, n) == SubSeq(s, 1, IF Len(s) < n THEN Len(s) ELSE n)

\* Capped with no cap.
Uncapped(path_indices) == path_indices

\* Section 4.7 (Proc): at most five path indices are processed.
Capped(path_indices) == Take(path_indices, MAX_PROC_PATHS)

\* The indices earlier Proc steps of the exchange processed.
ProcessedBefore(ex) ==
    UNION {{ex.search_steps[k].path_indices[p] : p \in 1..Len(ex.search_steps[k].path_indices)} :
              k \in {j \in 1..Len(ex.search_steps) : ex.search_steps[j].kind = "Proc"}}

RECURSIVE Without(_, _)
Without(s, S) ==
    IF s = <<>> THEN <<>>
    ELSE IF Head(s) \in S THEN Without(Tail(s), S) ELSE <<Head(s)>> \o Without(Tail(s), S)

\* Section 4.7 (Proc): capped at 5, deduped against prior Proc calls.
ProcIndices(ex, path_indices) == Without(Capped(path_indices), ProcessedBefore(ex))

KindOf(name) ==
    IF name = "code" THEN "Code" ELSE IF name = "path" THEN "Path"
    ELSE IF name = "proc" THEN "Proc" ELSE IF name = "none" THEN "Answer" ELSE "Reprompt"

SearchStep(call, found, path_indices, seen) ==
    [kind |-> KindOf(call.name), query |-> call.query, paths |-> call.paths,
     results |-> found, path_indices |-> path_indices, seen |-> seen]

\* Section 4.7, step 4: dispatch of the pending action; found is what the search
\* of a Code or Path action finds.
Dispatch(ex, action, found) ==
    IF action.name \in {"code", "path"}
    THEN [ex EXCEPT !.search_steps = Append(@, SearchStep(action, found, <<>>, Len(ex.paths_seen))),
                    !.paths_seen = push_unique(@, found)]
    ELSE IF action.name = "proc"
    THEN [ex EXCEPT !.search_steps =
             Append(@, SearchStep(action, NoResults, ProcIndices(ex, action.paths),
                                  Len(ex.paths_seen)))]
    ELSE IF action.name = "none"
    THEN [ex EXCEPT !.answer = Some("answer")]
    ELSE ex

\* IsRepeat letting every call through.
IsNeverRepeat(calls, reply) == FALSE

\* Section 4.7 (anti-loops): the function name and arguments of the reply are those
\* of a call made before in this exchange.
IsRepeat(calls, reply) == reply \in calls

\* The reply is a call of a function of the schema with arguments the agent can
\* use: a proc call names only rows of the PATHS table.
IsValid(schema, table, reply) ==
    /\ Contains(schema, reply.name)
    /\ reply.name = "proc" =>
          \A p \in 1..Len(reply.paths) : \E row \in 1..Len(table) : table[row][1] = reply.paths[p]

Reprompt == Call("reprompt", "", <<>>)

\* answer_article_prompt giving the single-path variant to a call without aliases too.
answer_article_prompt_up_to_one(aliases, context) ==
    IF Len(aliases) <= 1
    THEN <<context, "#####", "inline Markdown links">>
    ELSE <<context, "XML code blocks">>

\* Lines 152-236 of prompts.rs: the prompt as the context followed by its rules.
answer_article_prompt(aliases, context) ==
    LET one_prompt == <<context, "#####", "inline Markdown links">>
        many_prompt == <<context, "XML code blocks">>
    IN IF Len(aliases) = 1 THEN one_prompt ELSE many_prompt

OnlyAgent == UNCHANGED <<suggestVars, overlap, mmr, hyde, modifier>>

\* Lines 78-131 of main.rs: the first action is the query, the counter starts at 1.
InitAgent ==
    /\ InitSuggest
    /\ overlap = Idle /\ mmr = Idle /\ hyde = Idle /\ modifier = Idle
    /\ agent = [pc |-> "running", i |-> 1, action |-> Call("query", "q", <<>>),
                exchange |-> Exchange_new("q"), calls |-> {}, repeats |-> {}, invalid |-> {},
                add_proc |-> FALSE, functions |-> <<>>, table |-> <<>>, prompt |-> <<>>]

\* Lines 132-157 of main.rs, one pass of the loop: agent.step(action) dispatches the
\* action and, unless it was the answer, prompts the LM for the next one; `None`
\* leaves the loop, `Some(act)` makes act the action and counts the pass.  The
\* answer is the completion of the answer prompt built for the action's aliases.
Step(reply, found) ==
    /\ agent.pc = "running"
    /\ agent.i <= MaxSteps
    /\ LET ex == Dispatch(agent.exchange, agent.action, found)
           add_proc == ex.paths_seen # <<>>
           schema == functions(add_proc)
           prompted == [agent EXCEPT !.add_proc = add_proc, !.functions = schema,
                                     !.table = system(ex.paths_seen)]
       IN agent' =
            IF agent.action.name = "none"
            THEN [agent EXCEPT !.exchange = ex, !.pc = "left",
                               !.prompt = answer_article_prompt(agent.action.paths, "context")]
            ELSE IF reply.name = "error"
            THEN [prompted EXCEPT !.exchange = [ex EXCEPT !.last_error = Some("LM error")],
                                  !.pc = "left"]
            ELSE IF IsValid(schema, system(ex.paths_seen), reply) /\ ~IsRepeat(agent.calls, reply)
            THEN [prompted EXCEPT !.exchange = ex, !.action = reply, !.i = @ + 1,
                                  !.calls = @ \cup {reply}]
            ELSE IF agent.action = Reprompt
            THEN [prompted EXCEPT !.exchange = [ex EXCEPT !.last_error =
                                                    Some("repeated invalid tool calls")],
                                  !.pc = "left"]
            ELSE IF IsRepeat(agent.calls, reply)
            THEN [prompted EXCEPT !.exchange = ex, !.action = Reprompt, !.i = @ + 1,
                                  !.repeats = @ \cup {reply}]
            ELSE [prompted EXCEPT !.exchange = ex, !.action = Reprompt, !.i = @ + 1,
                                  !.invalid = @ \cup {reply}]
    /\ OnlyAgent

\* Line 159 of main.rs: agent.complete().
Complete ==
    /\ agent.pc = "left"
    /\ agent' = [agent EXCEPT !.pc = "done"]
    /\ OnlyAgent

NextAgent ==
    \/ \E reply \in Replies : \E found \in SearchResults : Step(reply, found)
    \/ Complete

SpecAgent == InitAgent /\ [][NextAgent]_vars

\* ------------------------------------------------------------- agent: claims
StepsOf(ag) == ag.exchange.search_steps
CallOfStep(s) == <<s.kind, s.query, s.paths>>
StepsFor(ag, call) ==
    {k \in 1..Len(StepsOf(ag)) : CallOfStep(StepsOf(ag)[k]) = <<KindOf(call.name), call.query, call.paths>>}

\* C13: within one exchange no function call (name and arguments) is dispatched
\* twice; a reply that repeats a call is rejected, the LM is prompted again in the
\* next pass, and the exchange holds exactly one search step for the call.
C13_NoCallDispatchedTwice ==
    [][/\ \A a, b \in 1..Len(StepsOf(agent')) :
              a # b => CallOfStep(StepsOf(agent')[a]) # CallOfStep(StepsOf(agent')[b])
       /\ \A r \in agent'.repeats : Cardinality(StepsFor(agent', r)) = 1
       /\ agent'.repeats # agent.repeats =>
              agent'.pc = "running" /\ agent'.action = Reprompt]_vars

\* The LM repeated the code search it had made, after the search had run.
C13_Witness ==
    /\ Call("code", "foo", <<>>) \in agent.repeats
    /\ Cardinality(StepsFor(agent, Call("code", "foo", <<>>))) = 1
    /\ agent.action = Reprompt /\ agent.pc = "running"

RECURSIVE Referenced(_, _)
\* The paths the steps of an exchange refer to, in the order of the steps: what a
\* search found, and the rows of paths_seen a Proc step read.
Referenced(ex, n) ==
    IF n = 0 THEN <<>>
    ELSE LET s == ex.search_steps[n]
         IN Referenced(ex, n - 1) \o s.results
            \o [p \in 1..Len(s.path_indices) |-> ex.paths_seen[s.path_indices[p] + 1]]

FirstPos(s, x) == CHOOSE i \in 1..Len(s) : s[i] = x /\ \A j \in 1..(i - 1) : s[j] # x

InFirstOccurrenceOrder(ex) ==
    LET ps == ex.paths_seen
        ref == Referenced(ex, Len(ex.search_steps))
    IN /\ \A a, b \in 1..Len(ps) : a # b => ps[a] # ps[b]
       /\ \A k \in 1..Len(ref) : Contains(ps, ref[k])
       /\ \A a \in 1..Len(ps) : Contains(ref, ps[a])
       /\ \A a, b \in 1..Len(ps) : a < b => FirstPos(ref, ps[a]) < FirstPos(ref, ps[b])

\* C14: after every pass of the loop paths_seen holds every path a search step of
\* the exchange refers to, without duplicates and in the order the paths first
\* occurred; the paths it held before the pass are still there, at the same places.
C14_PathsSeenFirstOccurrenceOrder ==
    [][/\ InFirstOccurrenceOrder(agent'.exchange)
       /\ IsPrefix(agent.exchange.paths_seen, agent'.exchange.paths_seen)]_vars

\* A second search found a path again, behind a new one.
C14_Witness ==
    /\ Len(StepsOf(agent)) = 2
    /\ StepsOf(agent)[1].results = <<"a.rs">>
    /\ StepsOf(agent)[2].results = <<"b.py", "a.rs">>
    /\ agent.exchange.paths_seen = <<"a.rs", "b.py">>

\* C15: every Proc step of the exchange has at most 5 path indices, each of them an
\* offset into paths_seen as it was when the Proc action was dispatched.
C15_ProcIndicesCappedAndValid ==
    \A k \in 1..Len(StepsOf(agent)) :
        LET s == StepsOf(agent)[k]
        IN s.kind = "Proc" =>
            /\ Len(s.path_indices) <= MAX_PROC_PATHS
            /\ \A p \in 1..Len(s.path_indices) : s.path_indices[p] \in 0..(s.seen - 1)

\* The LM asked for six paths and the step recorded five.
C15_Witness ==
    \E k \in 1..Len(StepsOf(agent)) :
        /\ StepsOf(agent)[k].kind = "Proc"
        /\ Len(StepsOf(agent)[k].paths) > MAX_PROC_PATHS
        /\ Len(StepsOf(agent)[k].path_indices) = MAX_PROC_PATHS

Occurrences(s, x) == Cardinality({i \in 1..Len(s) : s[i] = x})

\* C17: the tool schema of every LM call holds proc exactly when add_proc is set,
\* which it is exactly when paths_seen is not empty; code, path and none are in
\* it exactly once each.
C17_ProcOfferedIffPathsSeen ==
    agent.functions # <<>> =>
        /\ Occurrences(agent.functions, "proc") = (IF agent.add_proc THEN 1 ELSE 0)
        /\ agent.add_proc <=> agent.exchange.paths_seen # <<>>
        /\ \A name \in {"code", "path", "none"} : Occurrences(agent.functions, name) = 1

\* proc was offered after a search that was made when it was not (no path seen).
C17_Witness ==
    /\ agent.add_proc /\ Contains(agent.functions, "proc")
    /\ Len(StepsOf(agent)) >= 1 /\ StepsOf(agent)[1].seen = 0

\* ------------------------------------------------------- agent: HyDE parser
\* try_parse_hypothetical_documents (src/agents/src/agent/prompts.rs, lines
\* 352-359) on documents of characters: the backtick, a letter (of a language tag
\* or of code) and the line break.

\* Most pieces of one document.
MaxTokens == 8

\* The backtick.
Tick == "tick"
Fence == <<Tick, Tick, Tick>>
Tokens == {Fence, <<Tick>>, <<"r">>, <<"\n">>}

RECURSIVE Flatten(_)
Flatten(ts) == IF ts = <<>> THEN <<>> ELSE Head(ts) \o Flatten(Tail(ts))

White_Space == {" ", "\n"}

FenceAt(d, i) == i + 2 <= Len(d) /\ SubSeq(d, i, i + 2) = Fence

\* The regex engine looks for the next fence from a position on: its place, or 0.
find(d, from) ==
    IF \E i \in from..Len(d) : FenceAt(d, i)
    THEN CHOOSE i \in from..Len(d) : FenceAt(d, i) /\ \A j \in from..(i - 1) : ~FenceAt(d, j)
    ELSE 0

\* capture skipping a word that stands right after the opening fence, with its
\* line break.
capture_after_tag(d, o, c) ==
    LET m == SubSeq(d, o + 3, c - 1)
        tag == IF \E n \in 1..Len(m) : m[n] # "r" THEN (CHOOSE n \in 1..Len(m) :
                      m[n] # "r" /\ \A j \in 1..(n - 1) : m[j] = "r") - 1 ELSE 0
    IN IF tag >= 1 /\ m[tag + 1] = "\n" THEN SubSeq(m, tag + 2, Len(m)) ELSE m

\* Line 353: group 1 of the pattern (any characters, as few as can be, between
\* two fences) for the fences at o and c.
capture(d, o, c) == SubSeq(d, o + 3, c - 1)

\* Lines 353-356: the matches of the pattern from a position on, leftmost first,
\* each as short as it can be, none overlapping another.
RECURSIVE captures_iter(_, _)
captures_iter(d, from) ==
    LET o == find(d, from)
        c == IF o = 0 THEN 0 ELSE find(d, o + 3)
    IN IF c = 0 THEN <<>> ELSE <<capture(d, o, c)>> \o captures_iter(d, c + 3)

\* trim leaving the string as it is.
untrimmed(s) == s

\* Line 357: str::trim.
RECURSIVE trim(_)
trim(s) ==
    IF s = <<>> THEN s
    ELSE IF Head(s) \in White_Space THEN trim(Tail(s))
    ELSE IF s[Len(s)] \in White_Space THEN trim(SubSeq(s, 1, Len(s) - 1))
    ELSE s

\* Lines 352-359.
try_parse_hypothetical_documents(document) ==
    LET m == captures_iter(document, 1)
    IN [k \in 1..Len(m) |-> trim(m[k])]

InitHyde ==
    /\ InitSuggest
    /\ overlap = Idle /\ mmr = Idle /\ agent = Idle /\ modifier = Idle
    /\ \E ts \in SeqsUpTo(Tokens, MaxTokens) :
           hyde = [pc |-> "called", document |-> Flatten(ts), out |-> <<>>]

\* One call of try_parse_hypothetical_documents.
TryParseHypotheticalDocuments ==
    /\ hyde.pc = "called"
    /\ hyde' = [hyde EXCEPT !.pc = "returned",
                            !.out = try_parse_hypothetical_documents(hyde.document)]
    /\ UNCHANGED <<suggestVars, overlap, mmr, agent, modifier>>

NextHyde == TryParseHypotheticalDocuments

SpecHyde == InitHyde /\ [][NextHyde]_vars

\* The fenced blocks of a document, read character by character: a fence opens a
\* block when none is open and closes the open one otherwise; a block left open at
\* the end of the document is none.
RECURSIVE FencedBlocks(_, _, _, _)
FencedBlocks(d, i, open, text) ==
    IF i > Len(d) THEN <<>>
    ELSE IF FenceAt(d, i)
         THEN IF open THEN <<text>> \o FencedBlocks(d, i + 3, FALSE, <<>>)
              ELSE FencedBlocks(d, i + 3, TRUE, <<>>)
         ELSE FencedBlocks(d, i + 1, open, IF open THEN Append(text, d[i]) ELSE text)

\* s without the white space around it: from its first to its last character
\* that is not white space.
Trimmed(s) ==
    LET inner == {i \in 1..Len(s) : s[i] \notin White_Space}
    IN IF inner = {} THEN <<>>
       ELSE SubSeq(s, CHOOSE a \in inner : \A b \in inner : a <= b,
                      CHOOSE a \in inner : \A b \in inner : a >= b)

\* The length of the language tag of a block: the word right after the opening
\* fence, ended by a line break; 0 when there is none.
TagLen(b) ==
    IF \E n \in 1..Len(b) : b[n] = "\n" /\ n > 1 /\ \A j \in 1..(n - 1) : b[j] = "r"
    THEN (CHOOSE n \in 1..Len(b) : b[n] = "\n" /\ \A j \in 1..(n - 1) : b[j] = "r") - 1
    ELSE 0

\* The string returned for block b starts with the block's tag, as a line.
TagIsFirstLine(b, s) ==
    /\ Len(s) >= TagLen(b)
    /\ SubSeq(s, 1, TagLen(b)) = SubSeq(b, 1, TagLen(b))
    /\ Len(s) > TagLen(b) => s[TagLen(b) + 1] = "\n"

BlocksOf(d) == FencedBlocks(d, 1, FALSE, <<>>)

\* C18: try_parse_hypothetical_documents returns, in document order, one string
\* for each fenced block: the text between the fences without the white space
\* around it, a language tag right after the opening fence being its first line.
C18_BlocksTrimmedInOrder ==
    hyde.pc = "returned" =>
        LET blocks == BlocksOf(hyde.document)
        IN /\ hyde.out = [k \in 1..Len(blocks) |-> Trimmed(blocks[k])]
           /\ \A k \in 1..Len(blocks) :
                  TagLen(blocks[k]) > 0 => TagIsFirstLine(blocks[k], hyde.out[k])

\* A block with a tag and a line of code, then a block without a tag: the document
\* of the test (lines 400-415) in short.
C18_Witness ==
    /\ hyde.pc = "returned"
    /\ hyde.document = Fence \o <<"r", "\n", "r">> \o Fence \o Fence \o <<"\n">> \o Fence
    /\ hyde.out = << <<"r", "\n", "r">>, <<>> >>

\* C19 as stated: the strings returned do not include the language tag: for a
\* block with a tag the string is the text after the tag's line, trimmed.
C19_TagNotInOutput ==
    hyde.pc = "returned" =>
        LET blocks == BlocksOf(hyde.document)
        IN /\ Len(hyde.out) = Len(blocks)
           /\ \A k \in 1..Len(blocks) :
                  TagLen(blocks[k]) > 0 =>
                     hyde.out[k] = Trimmed(SubSeq(blocks[k], TagLen(blocks[k]) + 2,
                                                  Len(blocks[k])))

\* C19, amended: the parser does not tell a language tag from the rest of the
\* block: the string returned for a block with a tag includes the tag, as its
\* first line, and is longer than the text after the tag by the tag.
C19_TagStaysInOutput ==
    hyde.pc = "returned" =>
        LET blocks == BlocksOf(hyde.document)
        IN /\ Len(hyde.out) = Len(blocks)
           /\ \A k \in 1..Len(blocks) :
                  TagLen(blocks[k]) > 0 =>
                     /\ TagIsFirstLine(blocks[k], hyde.out[k])
                     /\ Len(hyde.out[k]) >= TagLen(blocks[k])
                            + Len(Trimmed(SubSeq(blocks[k], TagLen(blocks[k]) + 2,
                                                 Len(blocks[k]))))

\* A returned string of two lines, the first of which is the tag.
C19_Witness ==
    /\ hyde.pc = "returned"
    /\ Len(hyde.out) = 1
    /\ TagLen(BlocksOf(hyde.document)[1]) = 2
    /\ hyde.out[1] = <<"r", "r", "\n", "r">>

\* ------------------------------------------------------------------ modifier
\* aggregate_code_chunks (src/modifier/src/controller/modifier.rs, lines 58-80).
\* A CodeChunk is kept to its path and start_line; the chunks of one call are told
\* apart by start_line.

\* Most results of one call, and most chunks of one result.
MaxResults == 2
MaxChunks == 2

Repos == {"repo1", "repo2"}
ChunkPaths == {"file1.rs", "file2.rs"}

\* The (repo, chunk) pairs of lines 63-64, in the order the loops visit them.
RECURSIVE Visited(_)
Visited(rs) ==
    IF rs = <<>> THEN <<>>
    ELSE [k \in 1..Len(rs[1].code_chunks) |-> [repo |-> rs[1].repo, chunk |-> rs[1].code_chunks[k]]]
         \o Visited(Tail(rs))

\* key taking every chunk for one of the first repository.
key_without_repo(repo, chunk) == <<"repo1", chunk.path>>

\* Line 65.
key(repo, chunk) == <<repo, chunk.path>>

\* Lines 61-68: snippets_map after the loops.
RECURSIVE snippets_map(_)
snippets_map(visited) ==
    IF visited = <<>> THEN <<>>
    ELSE LET before == snippets_map(SubSeq(visited, 1, Len(visited) - 1))
             last == visited[Len(visited)]
             k == key(last.repo, last.chunk)
         IN [x \in DOMAIN before \cup {k} |->
                IF x = k THEN Append(IF k \in DOMAIN before THEN before[k] ELSE <<>>, last.chunk)
                ELSE before[x]]

\* Lines 70-77: the entries of the map as CodeSnippets, in the order `keys`, which
\* is the order the HashMap happens to iterate in.
code_snippets(map, keys) ==
    [i \in 1..Len(keys) |->
        [repo |-> keys[i][1], path |-> keys[i][2], code_chunks |-> map[keys[i]]]]

Orders(S) == {f \in [1..Cardinality(S) -> S] : \A i, j \in 1..Cardinality(S) : i # j => f[i] # f[j]}

InitModifier ==
    /\ InitSuggest
    /\ overlap = Idle /\ mmr = Idle /\ agent = Idle /\ hyde = Idle
    /\ \E rs \in SeqsUpTo([repo : Repos, paths : SeqsUpTo(ChunkPaths, MaxChunks)], MaxResults) :
           modifier =
               [pc |-> "called",
                results |-> [r \in 1..Len(rs) |->
                    [repo |-> rs[r].repo,
                     code_chunks |-> [k \in 1..Len(rs[r].paths) |->
                         [path |-> rs[r].paths[k], start_line |-> r * (MaxChunks + 1) + k]]]],
                out |-> <<>>,
                err |-> 0]

\* Lines 53-55 with every fetch successful, then one call of aggregate_code_chunks;
\* the HashMap yields its entries in some order.
AggregateCodeChunks ==
    /\ modifier.pc = "called"
    /\ LET map == snippets_map(Visited(modifier.results))
       IN \E keys \in Orders(DOMAIN map) :
              modifier' = [modifier EXCEPT !.pc = "returned", !.out = code_snippets(map, keys)]
    /\ UNCHANGED <<suggestVars, overlap, mmr, agent, hyde>>

\* FetchCodeSpanFails keeping what the other fetches returned.
FetchCodeSpanFailsOthersKept(i) ==
    /\ modifier.pc = "called"
    /\ i \in 1..Len(modifier.results)
    /\ LET map == snippets_map(Visited(SelectSeq(modifier.results,
                                                 LAMBDA r : r # modifier.results[i])))
       IN \E keys \in Orders(DOMAIN map) :
              modifier' = [modifier EXCEPT !.pc = "failed", !.err = i,
                                           !.out = code_snippets(map, keys)]
    /\ UNCHANGED <<suggestVars, overlap, mmr, agent, hyde>>

\* Lines 26-53 of get_code_snippets: one fetch is made for each context file, and
\* modifier.results holds what each returns when it succeeds.  Here the fetch of
\* file i is the first to fail: try_join_all gives its error at once, and the ?
\* of line 53 returns it.
FetchCodeSpanFails(i) ==
    /\ modifier.pc = "called"
    /\ i \in 1..Len(modifier.results)
    /\ modifier' = [modifier EXCEPT !.pc = "failed", !.err = i]
    /\ UNCHANGED <<suggestVars, overlap, mmr, agent, hyde>>

SpecModifier ==
    InitModifier /\ [][AggregateCodeChunks \/ \E i \in 1..MaxResults : FetchCodeSpanFails(i)]_vars

\* The chunks of the input with this repo and path, in input order.
ChunksOf(rs, repo, path) ==
    LET v == Visited(rs)
        Here(x) == x.repo = repo /\ x.chunk.path = path
        sel == SelectSeq(v, Here)
    IN [k \in 1..Len(sel) |-> sel[k].chunk]

\* C20: the output of aggregate_code_chunks has exactly one entry for each distinct
\* (repo, chunk path) pair of the input and none else; the chunks of an entry are
\* the input chunks of its repo and path, each once, in input order, so that every
\* input chunk is in exactly one entry; an empty input gives an empty output.
C20_GroupedByRepoAndPath ==
    modifier.pc = "returned" =>
        LET v == Visited(modifier.results)
            out == modifier.out
            pairs == {<<v[k].repo, v[k].chunk.path>> : k \in 1..Len(v)}
        IN /\ Len(out) = Cardinality(pairs)
           /\ {<<out[i].repo, out[i].path>> : i \in 1..Len(out)} = pairs
           /\ \A i \in 1..Len(out) :
                  out[i].code_chunks = ChunksOf(modifier.results, out[i].repo, out[i].path)
           /\ \A k \in 1..Len(v) :
                  Cardinality({<<i, p>> \in (1..Len(out)) \X (1..MaxResults * MaxChunks) :
                                   p <= Len(out[i].code_chunks)
                                   /\ out[i].code_chunks[p] = v[k].chunk}) = 1
           /\ modifier.results = <<>> => out = <<>>

\* Two results of one repository share a path: its entry has a chunk of each, in
\* input order, and the other path has an entry of its own.
C20_Witness ==
    /\ modifier.pc = "returned"
    /\ Len(modifier.results) = 2
    /\ modifier.results[1].repo = modifier.results[2].repo
    /\ Len(modifier.out) = 2
    /\ \E i \in 1..2 : /\ Len(modifier.out[i].code_chunks) = 2
                       /\ modifier.out[i].code_chunks[1] = modifier.results[1].code_chunks[1]
                       /\ modifier.out[i].code_chunks[2] = modifier.results[2].code_chunks[1]

\* ------------------------------------------- claims on the controller's steps
\* The calls of the fan-out that have not completed.
InFlight == IF pc = "fanout" THEN {i \in 1..Len(responses) : ~responses[i].done} ELSE {}

\* The ids of a list of questions.
IdsOf(questions) == [k \in 1..Len(questions) |-> questions[k].id]

\* C21: the answering step issues exactly one call for each unanswered question;
\* while calls are in flight neither the graph nor the store changes, and the
\* request goes on (to the graph update and its return) only when no call is in
\* flight.
C21_GraphExtendedAfterAllCalls ==
    [][/\ (pc = "loop" /\ pc' = "fanout") =>
             /\ svc_calls' = IdsOf(get_unanswered_questions(tracker))
             /\ \A i, j \in 1..Len(svc_calls') : i # j => svc_calls'[i] # svc_calls'[j]
             /\ Len(responses') = Len(svc_calls')
             /\ \A i \in 1..Len(responses') : ~responses'[i].done
       /\ (pc = "fanout" /\ pc' # "idle") =>
             /\ svc_calls' = svc_calls
             /\ InFlight # {} => (tracker' = tracker /\ store' = store /\ pc' = "fanout")
             /\ (tracker' # tracker \/ store' # store \/ pc' = "done") =>
                   (InFlight = {} /\ Len(order) = Len(svc_calls))]_vars

\* A fan-out of two calls that completed in the other order, one of them failing,
\* has returned.
C21_Witness ==
    /\ pc = "done" /\ Len(svc_calls) = 2 /\ order = <<2, 1>>
    /\ responses[1].ok /\ ~responses[2].ok
    /\ \E q \in NodeIds(tracker, "Question") : IsAnswered(tracker, q)

\* ------------------------------------------------ the fan-out of a long list
\* Most questions of the task list a request finds unanswered.
MaxQuestions == 9

\* A task list of one task, one subtask and n questions.
ManyQuestions(n) ==
    << [task |-> "t1",
        subtasks |-> << [subtask |-> "s1",
                         questions |-> [k \in 1..n |-> "q" \o ToString(k)]] >>] >>

\* A request with a conversation id has loaded a graph whose turn has n
\* unanswered questions (lines 47-72): the task generation of an earlier request
\* wrote it, and that request ended before its fan-out did.
InitFanOut ==
    /\ overlap = Idle /\ mmr = Idle /\ agent = Idle /\ hyde = Idle /\ modifier = Idle
    /\ \E n \in 1..MaxQuestions :
         LET r0 == initialize_graph(TrackProcessV1_new(RepoName), [i \in ConvIds |-> None])
             chain == [user_message      |-> "u1",
                       system_message    |-> "question_concept_generator_prompt",
                       assistant_message |-> "many"]
             r1 == extend_graph_with_conversation_and_tasklist(r0.t, r0.st, chain,
                       Some([tasks |-> Some(ManyQuestions(n)), ask_user |-> None]))
         IN /\ store = r1.st
            /\ request = [id |-> Some(r1.t.conversation_id), user_query |-> "u1",
                          repo_name |-> RepoName]
            /\ tracker = load_task_process_from_redis(store, r1.t.conversation_id).tracker
    /\ state = last_conversation_processing_stage(tracker)
    /\ pc = "loop"
    /\ task_list = <<>>
    /\ responses = <<>>
    /\ order = <<>>
    /\ results = <<>>
    /\ response = NoResponse
    /\ passes = 0
    /\ llm_content = ""
    /\ svc_calls = <<>>

\* The answering step alone; the calls complete in the order of the questions (how
\* many are in flight does not depend on the order).
NextFanOut ==
    \/ ArmTasksAndQuestionsGenerated
    \/ \E succeeds \in BOOLEAN : CompleteCall(Len(order) + 1, succeeds)
    \/ JoinAll

SpecFanOut == InitFanOut /\ [][NextFanOut]_vars

\* C22: at no moment are more than 8 code-understanding calls of one request in
\* flight, whatever the number of unanswered questions.
C22_AtMostEightInFlight == Cardinality(InFlight) <= 8

\* C23: the answering step returns an error exactly when a call of the fan-out
\* failed or the graph update failed; when only calls failed the error is that of
\* the first failed call in the order of the questions, whatever the order the
\* calls failed in; when nothing failed it returns success.
C23_FirstErrorInQuestionOrder ==
    [][(pc = "fanout" /\ pc' = "done") =>
          LET failed == {k \in 1..Len(task_list) : ~responses[k].ok}
              extended == extend_graph_with_answers(tracker, store, results').ok
          IN /\ Len(results') = Len(task_list)
             /\ (response'.kind = "err") <=> (failed # {} \/ ~extended)
             /\ (response'.kind = "ok") <=> (failed = {} /\ extended)
             /\ (failed # {} /\ extended) =>
                   \E k \in failed :
                       /\ \A j \in failed : k <= j
                       /\ response'.err = ErrorOfCall(task_list[k].id)]_vars

\* The third call failed first, then the second; the first call succeeded.
C23_Witness ==
    /\ pc = "done" /\ Len(results) = 3 /\ order = <<3, 2, 1>>
    /\ results[1].ok /\ ~results[2].ok /\ ~results[3].ok
    /\ response.err = ErrorOfCall(task_list[2].id)

\* The texts a returned list names.
TextsOf(tasks) == {tasks[k].text : k \in 1..Len(tasks)}

\* C24: when every call of the answering step succeeded, the list the request
\* returns names every task, subtask and question of the current turn.
C24_ReturnsFullTaskList ==
    (pc = "done" /\ results # <<>> /\ response.kind = "ok") =>
        \A kind \in {"Task", "Subtask", "Question"} :
            \A i \in InLastConversation(tracker, kind) :
                tracker.nodes[i].text \in TextsOf(response.tasks)

\* The request is in the loop with a graph that holds its Root and nothing else.
JustInitialized ==
    /\ pc = "loop" /\ state = "GenerateTasksAndQuestions"
    /\ Len(tracker.nodes) = 1 /\ tracker.nodes[1].kind = "Root"

\* C25: a request without a conversation id starts on a new, empty graph in stage
\* GraphNotInitialized; its first step creates the Root (and nothing else) and
\* moves to GenerateTasksAndQuestions without calling the LM or the service; its
\* next step, in the same request, is the task-generation LM call.
C25_NewGraphInitializedThenGenerates ==
    [][/\ (pc \in {"idle", "done"} /\ pc' = "loop" /\ is_none(request'.id)) =>
             /\ tracker' = TrackProcessV1_new(RepoName)
             /\ state' = "GraphNotInitialized"
       /\ (pc = "loop" /\ state = "GraphNotInitialized" /\ pc' # "idle") =>
             /\ pc' = "loop" /\ state' = "GenerateTasksAndQuestions"
             /\ request' = request
             /\ Len(tracker'.nodes) = 1 /\ tracker'.nodes[1].kind = "Root"
             /\ tracker'.edges = {}
             /\ store'[tracker'.conversation_id] = Some(save(tracker'))
             /\ llm_content' = "" /\ svc_calls' = <<>>
       /\ (JustInitialized /\ pc' # "idle") =>
             /\ request' = request /\ svc_calls' = <<>>
             /\ \/ llm_content' # ""
                \/ response' = Err("Unable to fetch response from the gateway")]_vars

\* A request without id has initialized its graph and received tasks from the LM.
C25_Witness ==
    /\ is_none(request.id) /\ pc = "loop" /\ state = "TasksAndQuestionsGenerated"
    /\ llm_content = "two" /\ svc_calls = <<>>
    /\ Cardinality(NodeIds(tracker, "Root")) = 1

\* The text of the user message of conversation c.
UserTextOf(t, c) ==
    t.nodes[CHOOSE u \in 1..Len(t.nodes) : Edge(c, u, "user") \in t.edges].text

\* C26: a request that finds the stage AwaitingUserInput moves to
\* GenerateTasksAndQuestions without changing the graph; the task generation that
\* follows, when the LM gives a usable answer, appends one Conversation whose user
\* message is the request's query, and keeps every node and edge the graph had.
C26_FollowUpAppendsTurn ==
    [][/\ (pc = "loop" /\ state = "AwaitingUserInput" /\ pc' # "idle") =>
             /\ pc' = "loop" /\ state' = "GenerateTasksAndQuestions"
             /\ tracker' = tracker /\ store' = store /\ request' = request
             /\ llm_content' = "" /\ svc_calls' = <<>>
       /\ (pc = "loop" /\ state = "GenerateTasksAndQuestions" /\ pc' # "idle") =>
             /\ llm_content' # "" \/ response' = Err("Unable to fetch response from the gateway")
             /\ svc_calls' = svc_calls
             /\ tracker' # tracker =>
                   LET c == Len(tracker.nodes) + 1
                   IN /\ IsPrefix(tracker.nodes, tracker'.nodes)
                      /\ tracker.edges \subseteq tracker'.edges
                      /\ NodeIds(tracker', "Conversation") = NodeIds(tracker, "Conversation") \cup {c}
                      /\ c \notin NodeIds(tracker, "Conversation")
                      /\ UserTextOf(tracker', c) = request.user_query
                      /\ AssistantTextOf(tracker', c) = llm_content'
                      /\ \A e \in tracker'.edges \ tracker.edges : e[2] >= c]_vars

\* A follow-up with another query has added the second turn to a conversation whose
\* first turn asked the user for more.
C26_Witness ==
    /\ is_some(request.id) /\ pc = "loop" /\ state = "TasksAndQuestionsGenerated"
    /\ Cardinality(NodeIds(tracker, "Conversation")) = 2
    /\ \E c, d \in NodeIds(tracker, "Conversation") :
          /\ c < d
          /\ AskUserOf(AssistantTextOf(tracker, c)) # ""
          /\ UserTextOf(tracker, c) = "u1" /\ UserTextOf(tracker, d) = "u2"

Loadable(st, id) == id \in DOMAIN st /\ is_some(st[id]) /\ unwrap(st[id]).version = GraphVersion

\* C28: a request with a conversation id whose graph cannot be loaded returns an
\* error at once: it goes on with no graph, new or old, makes no LM or service
\* call and leaves the session store as it was.
C28_LoadFailureReturnsError ==
    [][(pc \in {"idle", "done"} /\ is_some(request'.id)
        /\ ~Loadable(store, unwrap(request'.id))) =>
          /\ pc' = "done" /\ response'.kind = "err"
          /\ store' = store
          /\ ~HasRoot(tracker')
          /\ llm_content' = "" /\ svc_calls' = <<>>]_vars

\* A request named a conversation the store does not hold, while the store holds
\* nothing, and has returned an error.
C28_Witness ==
    /\ pc = "done" /\ is_some(request.id) /\ is_none(store[unwrap(request.id)])
    /\ response = Err("Failed to load the conversation from Redis")
    /\ tracker.nodes = <<>>

\* C29: the condition of the stage loop holds of every stage, so the loop is never
\* left through its condition: a request leaves it only by a return from inside it
\* (with a task list or an error), and the code after the loop never runs.
C29_LoopLeftOnlyByReturn ==
    [][/\ \A s \in Stages : LoopGuard(s)
       /\ pc = "loop" => (state \in Stages /\ LoopGuard(state))
       /\ (pc \in {"loop", "fanout"} /\ pc' \notin {"loop", "fanout", "idle"}) =>
             (pc' = "done" /\ response'.kind \in {"ok", "err"})]_vars

\* The loop went round with its stage unchanged and its condition still true.
C29_Witness ==
    /\ pc = "loop" /\ passes >= 1 /\ state = "AllQuestionsAnswered"
    /\ state # "Done" /\ LoopGuard(state)

\* ------------------------------- the reference procedure of the overlap filter
\* Sorting keys: (path, start_line) ascending, and score descending.
PathStartKey == [x \in Payloads |-> PathOrd(x.relative_path) * (MaxLine + 1) + x.start_line]
ScoreKey == [x \in Payloads |-> 0 - x.score]

\* x put into a list sorted by key, after the elements whose key is not greater.
RECURSIVE RefInsert(_, _, _)
RefInsert(sorted, x, keyOf) ==
    IF sorted = <<>> THEN <<x>>
    ELSE IF keyOf[Head(sorted)] <= keyOf[x]
         THEN <<Head(sorted)>> \o RefInsert(Tail(sorted), x, keyOf)
         ELSE <<x>> \o sorted

RECURSIVE RefSort(_, _)
RefSort(s, keyOf) ==
    IF s = <<>> THEN <<>>
    ELSE RefInsert(RefSort(SubSeq(s, 1, Len(s) - 1), keyOf), s[Len(s)], keyOf)

\* The walk: a snippet is dropped exactly when it has the path of the most recently
\* kept one and starts at or before that one's end.
RECURSIVE RefWalk(_, _)
RefWalk(kept, rest) ==
    IF rest = <<>> THEN kept
    ELSE LET x == Head(rest)
             dropped == /\ kept # <<>>
                        /\ kept[Len(kept)].relative_path = x.relative_path
                        /\ x.start_line <= kept[Len(kept)].end_line
         IN RefWalk(IF dropped THEN kept ELSE Append(kept, x), Tail(rest))

Reference(s) == RefSort(RefWalk(<<>>, RefSort(s, PathStartKey)), ScoreKey)

Range(s) == {s[i] : i \in 1..Len(s)}

\* C30: filter_overlapping_snippets returns what the reference procedure returns:
\* sort by (path, start_line), walk and drop, sort the kept snippets by score
\* descending.  The output is in score order, its snippets are snippets of the
\* input, and every snippet left out starts inside a kept snippet of its path that
\* starts no later, whatever the scores.
C30_EqualsReferenceProcedure ==
    overlap.pc = "returned" =>
        /\ overlap.out = Reference(overlap.snippets)
        /\ \A i, j \in 1..Len(overlap.out) : i < j => overlap.out[i].score >= overlap.out[j].score
        /\ Range(overlap.out) \subseteq Range(overlap.snippets)
        /\ \A x \in Range(overlap.snippets) \ Range(overlap.out) :
              \E y \in Range(overlap.out) :
                  /\ y.relative_path = x.relative_path
                  /\ y.start_line <= x.start_line /\ x.start_line <= y.end_line

\* The snippet left out has a higher score than the kept one it starts in, and the
\* output order (by score) is not the path order.
C30_Witness ==
    /\ overlap.pc = "returned"
    /\ Len(overlap.snippets) = 3 /\ Len(overlap.out) = 2
    /\ overlap.out[1].relative_path = "b.py" /\ overlap.out[2].relative_path = "a.rs"
    /\ overlap.out[1].score > overlap.out[2].score
    /\ \E x \in Range(overlap.snippets) \ Range(overlap.out) :
          /\ x.relative_path = "a.rs" /\ x.score > overlap.out[2].score
          /\ x.start_line > overlap.out[2].start_line

\* ------------------------------------------------- claims on the MMR selection
\* The candidates (counted from 0) not selected so far.
Unselected(m) == {j \in 0..(Len(m.embeddings) - 1) : ~Selected(m, j)}

\* How many of the selected candidates have this value in the list vals.
SelectedWith(m, vals, v) == Cardinality({p \in 1..Len(m.idxs) : vals[m.idxs[p] + 1] = v})

\* Query [1,0], embeddings [1,0], [0,1], [1,0] of one language and one path, k = 2.
Scenario2(m) ==
    /\ m.query_embedding = <<1, 0>>
    /\ m.embeddings = << <<1, 0>>, <<0, 1>>, <<1, 0>> >>
    /\ \A p \in 1..3 : m.languages[p] = m.languages[1] /\ m.paths[p] = m.paths[1]
    /\ m.k = 2

\* C31: a round that selects an index selects the lowest unselected index whose
\* score no unselected index exceeds, the scores being computed with the language
\* and path counts of the indices selected before the round; a round selects
\* whenever an unselected index has a comparable score; the scenario gives [0, 1].
C31_LowestIndexOfMaximumScore ==
    [][/\ (mmr.pc = "selecting" /\ mmr'.pc = "selecting" /\ mmr' # mmr) =>
             /\ \A l \in {mmr.languages[p] : p \in 1..Len(mmr.languages)} :
                    CountOf(mmr.lang_counts, l) = SelectedWith(mmr, mmr.languages, l)
             /\ \A f \in {mmr.paths[p] : p \in 1..Len(mmr.paths)} :
                    CountOf(mmr.path_counts, f) = SelectedWith(mmr, mmr.paths, f)
             /\ (\E j \in Unselected(mmr) : ~equation_score(mmr, j).nan) =>
                    Len(mmr'.idxs) = Len(mmr.idxs) + 1
             /\ Len(mmr'.idxs) = Len(mmr.idxs) + 1 =>
                    LET i == mmr'.idxs[Len(mmr'.idxs)]
                    IN /\ IsPrefix(mmr.idxs, mmr'.idxs)
                       /\ i \in Unselected(mmr)
                       /\ ~equation_score(mmr, i).nan
                       /\ \A j \in Unselected(mmr) :
                              ~gt(equation_score(mmr, j), equation_score(mmr, i))
                       /\ \A j \in Unselected(mmr) : j < i =>
                              \/ equation_score(mmr, j).nan
                              \/ gt(equation_score(mmr, i), equation_score(mmr, j))
       /\ (mmr'.pc = "returned" /\ Scenario2(mmr')) => mmr'.out = <<0, 1>>]_vars

\* The scenario has returned; both of its rounds chose among equal scores.
C31_Witness ==
    /\ mmr.pc = "returned" /\ Scenario2(mmr) /\ mmr.out = <<0, 1>>
    /\ mmr.rounds = 2

\* C37: every pass of the selection loop adds exactly one index, so the passes made
\* so far are as many as the indices selected, and never more than k.
C37_EveryRoundAddsOneIndex ==
    mmr.pc \in {"selecting", "returned"} =>
        (mmr.rounds = Len(mmr.idxs) /\ mmr.rounds <= mmr.k)

\* ------------------------------------------------- claims on the answer prompt
\* C32: the prompt of an answer is the single-path variant (inline Markdown links)
\* exactly when the answer names one alias, and the multi-path variant (XML code
\* blocks) for every other number of aliases, none included; either starts with
\* the context.
C32_VariantByAliasCount ==
    is_some(agent.exchange.answer) =>
        /\ agent.prompt[1] = "context"
        /\ ("inline Markdown links" \in Range(agent.prompt)) <=> (Len(agent.action.paths) = 1)
        /\ ("XML code blocks" \in Range(agent.prompt)) <=> (Len(agent.action.paths) # 1)

\* An answer without aliases has been given, with paths seen.
C32_Witness ==
    /\ is_some(agent.exchange.answer) /\ agent.action.paths = <<>>
    /\ agent.exchange.paths_seen # <<>>
    /\ "XML code blocks" \in Range(agent.prompt)

\* ------------------------------------------------- modifier: the LM context
\* generate_llm_context (src/modifier/src/controller/modifier.rs, lines 82-105).
\* The text is kept as its list of lines.

\* Most context files of one request.
MaxFiles == 2

\* Lines 82-105.  A context file without an entry among the snippets makes the
\* unwrap of line 97 panic.
generate_llm_context(snippets, context) ==
    LET shown == SelectSeq(context, LAMBDA f : ~f.hidden)
        Matches(f) == {i \in 1..Len(snippets) :
                          snippets[i].repo = f.repo /\ snippets[i].path = f.path}
        file_snippets(f) == snippets[CHOOSE i \in Matches(f) : \A j \in Matches(f) : i <= j]
        ChunkLines(f) ==
            LET cs == file_snippets(f).code_chunks
            IN [n \in 1..(2 * Len(cs)) |->
                   IF n % 2 = 1
                   THEN "### " \o f.repo \o ":" \o f.path \o " ###"
                   ELSE ToString(cs[n \div 2].start_line) \o ": " \o cs[n \div 2].path]
        RECURSIVE Chunks(_)
        Chunks(fs) == IF fs = <<>> THEN <<>> ELSE ChunkLines(Head(fs)) \o Chunks(Tail(fs))
    IN IF \E k \in 1..Len(shown) : Matches(shown[k]) = {}
       THEN [panic |-> TRUE, text |-> <<>>]
       ELSE [panic |-> FALSE,
             text |-> <<"#### PATHS ####">>
                      \o [k \in 1..Len(shown) |-> shown[k].repo \o ":" \o shown[k].path]
                      \o <<"#### CODE CHUNKS ####", "">>
                      \o Chunks(shown)]

\* A call of generate_llm_context: the snippets are what aggregate_code_chunks
\* gives for the chunks fetched (each path with no, one or two chunks, in either
\* order of the entries), the context is the request's list of files.
InitContext ==
    /\ InitSuggest
    /\ overlap = Idle /\ mmr = Idle /\ agent = Idle /\ hyde = Idle
    /\ \E context \in SeqsUpTo([repo : {"repo1"}, path : ChunkPaths, hidden : BOOLEAN], MaxFiles) :
       \E count \in [ChunkPaths -> 0..2] :
       \E keys \in Orders({<<"repo1", p>> : p \in {x \in ChunkPaths : count[x] > 0}}) :
           modifier =
               [pc |-> "asked",
                context |-> context,
                snippets |-> code_snippets(
                    [k \in {keys[i] : i \in 1..Len(keys)} |->
                        [n \in 1..count[k[2]] |-> [path |-> k[2], start_line |-> 10 * n]]],
                    keys),
                out |-> [panic |-> FALSE, text |-> <<>>]]

GenerateLlmContext ==
    /\ modifier.pc = "asked"
    /\ modifier' = [modifier EXCEPT !.pc = "generated",
                                    !.out = generate_llm_context(modifier.snippets, modifier.context)]
    /\ UNCHANGED <<suggestVars, overlap, mmr, agent, hyde>>

SpecContext == InitContext /\ [][GenerateLlmContext]_vars

\* The lines the context files that are not hidden are to give, in context order.
RECURSIVE PathLines(_)
PathLines(fs) ==
    IF fs = <<>> THEN <<>>
    ELSE (IF Head(fs).hidden THEN <<>> ELSE <<Head(fs).repo \o ":" \o Head(fs).path>>)
         \o PathLines(Tail(fs))

RECURSIVE HeadedChunks(_, _, _)
HeadedChunks(f, cs, n) ==
    IF n > Len(cs) THEN <<>>
    ELSE <<"### " \o f.repo \o ":" \o f.path \o " ###",
           ToString(cs[n].start_line) \o ": " \o cs[n].path>> \o HeadedChunks(f, cs, n + 1)

\* The chunks the snippets hold for a file (none when they have no entry for it).
ChunksFor(snips, f) ==
    IF \E i \in 1..Len(snips) : snips[i].repo = f.repo /\ snips[i].path = f.path
    THEN snips[CHOOSE i \in 1..Len(snips) :
                   snips[i].repo = f.repo /\ snips[i].path = f.path].code_chunks
    ELSE <<>>

RECURSIVE ChunkSection(_, _)
ChunkSection(snips, fs) ==
    IF fs = <<>> THEN <<>>
    ELSE (IF Head(fs).hidden THEN <<>>
          ELSE HeadedChunks(Head(fs), ChunksFor(snips, Head(fs)), 1))
         \o ChunkSection(snips, Tail(fs))

\* Every context file that is not hidden has an entry among the snippets.
AllShownHaveSnippets ==
    \A k \in 1..Len(modifier.context) :
        modifier.context[k].hidden \/ ChunksFor(modifier.snippets, modifier.context[k]) # <<>>

\* C33: generate_llm_context returns the PATHS section with one line for each
\* context file that is not hidden, in context order, and the CODE CHUNKS section
\* with every chunk of those files under a header naming the file's repo and path,
\* in context order; hidden files give nothing.
C33_ListsFilesNotHidden ==
    modifier.pc = "generated" =>
        /\ ~modifier.out.panic
        /\ modifier.out.text =
               <<"#### PATHS ####">> \o PathLines(modifier.context)
               \o <<"#### CODE CHUNKS ####", "">>
               \o ChunkSection(modifier.snippets, modifier.context)

C33_HoldsWhenAllShownHaveSnippets == AllShownHaveSnippets => C33_ListsFilesNotHidden

\* ------------------------------------------------ two requests on one graph
\* handle_suggest_core takes no lock on the conversation (lines 47-70 load the
\* graph with GET, every mutation writes the whole graph back with SET).  A second
\* request for the conversation id of the request in flight is taken here as one
\* step: it loads the stored graph, runs its fan-out (lines 153-170), in which the
\* calls in `succeeded` return an answer, and saves the graph with these answers.
OtherRequest(succeeded) ==
    /\ UNCHANGED libVars
    /\ pc \in {"loop", "fanout"}
    /\ is_some(request.id)
    /\ load_task_process_from_redis(store, unwrap(request.id)).ok
    /\ LET t  == load_task_process_from_redis(store, unwrap(request.id)).tracker
           qs == get_unanswered_questions(t)
           rs == join_all(qs, [k \in 1..Len(qs) |->
                                  IF k \in succeeded THEN OkResponse(qs[k].text) ELSE ErrResponse],
                          [k \in 1..Len(qs) |-> k])
       IN /\ last_conversation_processing_stage(t) = "TasksAndQuestionsGenerated"
          /\ succeeded \in SUBSET (1..Len(qs)) /\ succeeded # {}
          /\ store' = extend_graph_with_answers(t, store, rs).st
    /\ UNCHANGED <<pc, request, tracker, state, task_list, responses, order, results, response,
                   passes, llm_content, svc_calls>>

SpecConcurrent == Init /\ [][Next \/ \E succeeded \in SUBSET (1..3) : OtherRequest(succeeded)]_vars

\* ------------------------------------- claims on two requests on one graph

\* C34: with two requests for one conversation id running at once, no step takes
\* away from the stored graph a conversation turn or the answer of a question that
\* one of them persisted: the graph stored at the end holds the updates of both.
C34_NoPersistedUpdateLost ==
    [][\A i \in ConvIds : is_some(store[i]) =>
          /\ is_some(store'[i])
          /\ LET before == load(unwrap(store[i])).tracker
                 after  == load(unwrap(store'[i])).tracker
             IN /\ NodeIds(before, "Conversation") \subseteq NodeIds(after, "Conversation")
                /\ \A q \in NodeIds(before, "Question") :
                      IsAnswered(before, q) => q \in NodeIds(after, "Question") /\ IsAnswered(after, q)]_vars


\* C35: within one request the task-generation LM is called at most once and at
\* most one Conversation turn is appended: a step that calls the LM, or that
\* appends a turn, is taken only while no LM response has been received in the
\* request.
C35_OneLmCallOneTurn ==
    [][(/\ pc = "loop"
        /\ \/ state = "GenerateTasksAndQuestions" /\ pc' # "idle"
           \/ Cardinality(NodeIds(tracker', "Conversation")) > Cardinality(NodeIds(tracker, "Conversation")))
       => llm_content = ""]_vars


\* The contents that are a TaskList with tasks or with ask_user.
WithTasksOrAskUser == {"ask", "none", "one", "two", "three", "both"}

\* C36: a task-generation step that fails (the LM call fails, or the content it
\* gives is no TaskList, or a TaskList with neither ask_user nor tasks) returns an
\* error and leaves the graph, in memory and stored, as it was; a step returns an
\* error exactly when it left the graph unchanged.
C36_FailedGenerationAddsNothing ==
    [][(pc = "loop" /\ state = "GenerateTasksAndQuestions" /\ pc' # "idle") =>
          /\ (pc' = "done" /\ response'.kind = "err") <=> (tracker' = tracker /\ store' = store)
          /\ llm_content' \notin WithTasksOrAskUser =>
                pc' = "done" /\ response'.kind = "err" /\ tracker' = tracker /\ store' = store]_vars

C36_Witness ==
    /\ pc = "done" /\ response.kind = "err"
    /\ llm_content = "{}"
    /\ HasRoot(tracker) /\ NodeIds(tracker, "Conversation") = {}
    /\ store[tracker.conversation_id] = Some(save(tracker))


\* ---------------------------------------------- claims on deduplicate_snippets

\* C38: deduplicate_snippets returns the snippets of the filtered list whose
\* indices the selection returned, each index once, so min(output_count, number
\* of filtered snippets) of them, and in the order of the filtered list, whatever
\* the order in which they were selected.
C38_KeptInListOrder ==
    mmr.pc = "kept" =>
        /\ Len(mmr.kept) = Min(mmr.k, Len(mmr.embeddings))
        /\ {mmr.kept[p].ix : p \in 1..Len(mmr.kept)} = {mmr.out[p] : p \in 1..Len(mmr.out)}
        /\ \A p, q \in 1..Len(mmr.kept) : p < q => mmr.kept[p].ix < mmr.kept[q].ix
        /\ \A p \in 1..Len(mmr.kept) :
              /\ mmr.kept[p].embedding = mmr.embeddings[mmr.kept[p].ix + 1]
              /\ mmr.kept[p].lang = mmr.languages[mmr.kept[p].ix + 1]
              /\ mmr.kept[p].relative_path = mmr.paths[mmr.kept[p].ix + 1]

\* Two of three snippets kept, the later one of the list selected first.
C38_Witness ==
    /\ mmr.pc = "kept"
    /\ Len(mmr.embeddings) = 3 /\ Len(mmr.kept) = 2
    /\ mmr.out[1] > mmr.out[2]
    /\ mmr.kept[1].ix = mmr.out[2] /\ mmr.kept[2].ix = mmr.out[1]


\* ------------------------------------------------- claims on get_code_snippets

\* C39: get_code_snippets gives either the error of a fetch that failed and no
\* snippets at all, whatever the other fetches returned, or, with no fetch failed,
\* the snippets aggregated from the chunks of every context file.
C39_AllOrNothing ==
    /\ modifier.pc = "failed" =>
          /\ modifier.err \in 1..Len(modifier.results)
          /\ modifier.out = <<>>
    /\ modifier.pc = "returned" =>
          /\ modifier.err = 0
          /\ \A r \in 1..Len(modifier.results) : \A k \in 1..Len(modifier.results[r].code_chunks) :
                \E i \in 1..Len(modifier.out) :
                   /\ modifier.out[i].repo = modifier.results[r].repo
                   /\ \E p \in 1..Len(modifier.out[i].code_chunks) :
                         modifier.out[i].code_chunks[p] = modifier.results[r].code_chunks[k]

\* One of two fetches failed while the other file has chunks: nothing is returned.
C39_Witness ==
    /\ modifier.pc = "failed"
    /\ Len(modifier.results) = 2
    /\ modifier.results[3 - modifier.err].code_chunks # <<>>
    /\ modifier.out = <<>>

====
